---- MODULE Spec2Model ----
(***************************************************************************)
(* Model of adafruit_usb_host_descriptors.py: the configuration-descriptor *)
(* fetch, the descriptor walk, the HID classifier, the device analyser and *)
(* the process-wide device cache with its query API.                       *)
(*                                                                         *)
(* Python strings are sequences of one-character strings, bytes objects    *)
(* are sequences of naturals (Python index i is TLA+ index i + 1), None is *)
(* the record PyNone, and an attribute a device object does not have is    *)
(* the record Absent.                                                      *)
(***************************************************************************)
EXTENDS Integers, Sequences, FiniteSets, TLC

\* ------------------------------------------------------------------ bounds
MaxBus == 2
MaxTime == 1
MaxHeld == 14
MaxRecords == 3
MaxCandidates == 3

\* --------------------------------------------------------- program constants
DESC_DEVICE == 1
DESC_CONFIGURATION == 2
DESC_INTERFACE == 4
DESC_ENDPOINT == 5
DIR_IN == 128
HID_CLASS == 3
BOOT_SUBCLASS == 1
KEYBOARD_PROTOCOL == 1
MOUSE_PROTOCOL == 2
NO_PROTOCOL == 0
DeviceDescriptorLen == 18
ConfigHeaderLen == 9
DefaultCacheTimeout == 1
StorePad == 28
LookupPad == 22

\* ------------------------------------------------------------ Python values
PyNone == [tag |-> "none", val |-> <<>>]
Absent == [tag |-> "absent", val |-> <<>>]
PyStr(s) == [tag |-> "str", val |-> s]

\* getattr(obj, name, default): the attribute, or default when it is missing
GetAttr(v, default) == IF v.tag = "absent" THEN default ELSE v

UpperCase == <<"A","B","C","D","E","F","G","H","I","J","K","L","M",
               "N","O","P","Q","R","S","T","U","V","W","X","Y","Z">>
LowerCase == <<"a","b","c","d","e","f","g","h","i","j","k","l","m",
               "n","o","p","q","r","s","t","u","v","w","x","y","z">>

LowerChar(c) ==
    IF \E k \in 1..26 : UpperCase[k] = c
    THEN LowerCase[CHOOSE k \in 1..26 : UpperCase[k] = c]
    ELSE c

\* str.lower()
Lower(s) == [k \in 1..Len(s) |-> LowerChar(s[k])]

\* keyword in text
Contains(text, keyword) ==
    \E k \in 0..(Len(text) - Len(keyword)) :
        SubSeq(text, k + 1, k + Len(keyword)) = keyword

HexDigits == <<"0","1","2","3","4","5","6","7","8","9","a","b","c","d","e","f">>

\* format(n, "04x") for 0 <= n < 65536
Hex4(n) == << HexDigits[((n \div 4096) % 16) + 1], HexDigits[((n \div 256) % 16) + 1],
              HexDigits[((n \div 16) % 16) + 1], HexDigits[(n % 16) + 1] >>

Spaces(n) == [k \in 1..n |-> " "]

\* str(x) of a string or of None, as an f-string replacement field renders it
Str(v) == IF v.tag = "none" THEN <<"N","o","n","e">> ELSE v.val

\* a direction test that takes no endpoint for an input endpoint
NoDirIn(x) == 0

\* a direction test that takes every endpoint for an IN endpoint
EveryDirIn(x) == DIR_IN

\* x & DIR_IN for a byte x
AndDirIn(x) == ((x \div DIR_IN) % 2) * DIR_IN

Min(a, b) == IF a < b THEN a ELSE b
Max(a, b) == IF a < b THEN b ELSE a

\* ------------------------------------------------- the devices on the bus
\* Descriptor records as devices send them (USB 2.0 chapter 9 layouts).
ConfigHeader(total, numInterfaces) ==
    <<9, DESC_CONFIGURATION, total % 256, total \div 256, numInterfaces, 1, 0, 160, 50>>
InterfaceDesc(number, numEndpoints, class, subclass, protocol) ==
    <<9, DESC_INTERFACE, number, 0, numEndpoints, class, subclass, protocol, 0>>
HidDesc == <<9, 33, 17, 1, 0, 1, 34, 63, 0>>
EndpointDesc(address) == <<7, DESC_ENDPOINT, address, 3, 8, 0, 10>>

S_Logitech == <<"L","o","g","i","t","e","c","h">>
S_Acme == <<"A","C","M","E">>
S_UsbKeyboard == <<"U","S","B"," ","K","e","y","b","o","a","r","d">>
S_Combo == <<"K","e","y","s"," ","T","o","u","c","h">>
S_Pad == <<"P","a","d">>
S_Unknown == <<"U","n","k","n","o","w","n">>
S_no_serial == <<"n","o","_","s","e","r","i","a","l">>
S_SN1 == <<"S","N","1">>

DeviceIds == {"kbd", "combo", "pad", "dead", "short", "zero"}
\* further devices, for the specifications that name them
MoreDeviceIds == {"stub", "anon", "trio"}

\* What usb.core.find() can hand out.  cfg is the byte string the device
\* sends for GET_DESCRIPTOR(CONFIGURATION); usberr says its control transfers
\* raise usb.core.USBError; ddlen is the byte count of its device descriptor.
Device ==
    [id \in DeviceIds \cup MoreDeviceIds |->
        CASE id = "kbd" ->
               [idVendor |-> 1133, idProduct |-> 49948, serial_number |-> Absent,
                manufacturer |-> PyStr(S_Logitech), product |-> PyStr(S_UsbKeyboard),
                usberr |-> FALSE, ddlen |-> 18,
                cfg |-> ConfigHeader(34, 1)
                        \o InterfaceDesc(0, 1, HID_CLASS, 1, 1) \o HidDesc
                        \o EndpointDesc(129)]
          [] id = "combo" ->
               [idVendor |-> 4660, idProduct |-> 22136, serial_number |-> PyStr(S_SN1),
                manufacturer |-> PyStr(S_Acme), product |-> PyStr(S_Combo),
                usberr |-> FALSE, ddlen |-> 18,
                cfg |-> ConfigHeader(59, 2)
                        \o InterfaceDesc(0, 1, HID_CLASS, 1, 1) \o HidDesc
                        \o EndpointDesc(129)
                        \o InterfaceDesc(1, 1, HID_CLASS, 1, 2) \o HidDesc
                        \o EndpointDesc(130)]
          [] id = "pad" ->
               [idVendor |-> 1118, idProduct |-> 654, serial_number |-> PyNone,
                manufacturer |-> Absent, product |-> PyStr(S_Pad),
                usberr |-> FALSE, ddlen |-> 18,
                cfg |-> ConfigHeader(41, 1)
                        \o InterfaceDesc(0, 2, HID_CLASS, 0, 0) \o HidDesc
                        \o EndpointDesc(2) \o EndpointDesc(131)]
          [] id = "dead" ->
               [idVendor |-> 1133, idProduct |-> 49271, serial_number |-> Absent,
                manufacturer |-> PyStr(S_Logitech), product |-> PyStr(S_UsbKeyboard),
                usberr |-> TRUE, ddlen |-> 18,
                cfg |-> ConfigHeader(34, 1)
                        \o InterfaceDesc(0, 1, HID_CLASS, 1, 1) \o HidDesc
                        \o EndpointDesc(129)]
          [] id = "short" ->
               \* announces wTotalLength 59 and delivers 34 bytes
               [idVendor |-> 1133, idProduct |-> 49272, serial_number |-> Absent,
                manufacturer |-> PyStr(S_Logitech), product |-> PyStr(S_UsbKeyboard),
                usberr |-> FALSE, ddlen |-> 18,
                cfg |-> ConfigHeader(59, 1)
                        \o InterfaceDesc(0, 1, HID_CLASS, 1, 1) \o HidDesc
                        \o EndpointDesc(129)]
          [] id = "zero" ->
               \* its class descriptor declares bLength 0
               [idVendor |-> 1133, idProduct |-> 49273, serial_number |-> Absent,
                manufacturer |-> PyStr(S_Logitech), product |-> PyStr(S_UsbKeyboard),
                usberr |-> FALSE, ddlen |-> 18,
                cfg |-> ConfigHeader(34, 1)
                        \o InterfaceDesc(0, 1, HID_CLASS, 1, 1)
                        \o <<0, 33, 17, 1, 0, 1, 34, 63, 0>>
                        \o EndpointDesc(129)]
          [] id = "stub" ->
               \* answers GET_DESCRIPTOR(DEVICE) with 8 bytes
               [idVendor |-> 1133, idProduct |-> 49274, serial_number |-> Absent,
                manufacturer |-> PyStr(S_Logitech), product |-> PyStr(S_UsbKeyboard),
                usberr |-> FALSE, ddlen |-> 8,
                cfg |-> ConfigHeader(34, 1)
                        \o InterfaceDesc(0, 1, HID_CLASS, 1, 1) \o HidDesc
                        \o EndpointDesc(129)]
          [] id = "anon" ->
               \* has no manufacturer string: device.manufacturer is None
               [idVendor |-> 1133, idProduct |-> 49275, serial_number |-> PyNone,
                manufacturer |-> PyNone, product |-> PyStr(S_UsbKeyboard),
                usberr |-> FALSE, ddlen |-> 18,
                cfg |-> ConfigHeader(34, 1)
                        \o InterfaceDesc(0, 1, HID_CLASS, 1, 1) \o HidDesc
                        \o EndpointDesc(129)]
          [] id = "trio" ->
               \* a non-boot and a boot keyboard interface and a boot mouse
               [idVendor |-> 4660, idProduct |-> 22137, serial_number |-> PyStr(S_SN1),
                manufacturer |-> PyStr(S_Acme), product |-> PyStr(S_UsbKeyboard),
                usberr |-> FALSE, ddlen |-> 18,
                cfg |-> ConfigHeader(84, 3)
                        \o InterfaceDesc(0, 1, HID_CLASS, 0, 0) \o HidDesc
                        \o EndpointDesc(129)
                        \o InterfaceDesc(1, 1, HID_CLASS, 1, 1) \o HidDesc
                        \o EndpointDesc(130)
                        \o InterfaceDesc(2, 1, HID_CLASS, 1, 2) \o HidDesc
                        \o EndpointDesc(131)]]

\* ------------------------------------------------------ descriptor fetcher
\* device.ctrl_transfer(DIR_IN, GET_DESCRIPTOR, (desc_type << 8) | index, 0, buf)
\* with buf = bytearray(buflen), answered with data: the byte count
\* transferred and the buffer; requests lists the lengths asked for
ctrl_transfer(data, buflen) ==
    [status |-> "ok", length |-> Min(buflen, Len(data)),
     buf |-> [k \in 1..buflen |-> IF k <= Len(data) THEN data[k] ELSE 0],
     requests |-> <<buflen>>]

\* device is the usb.core.Device object (a record of Device)
get_descriptor(device, desc_type, buflen) ==
    IF device.usberr
    THEN [status |-> "USBError", length |-> 0, buf |-> <<>>, requests |-> <<buflen>>]
    ELSE ctrl_transfer(IF desc_type = DESC_CONFIGURATION
                       THEN device.cfg
                       ELSE [k \in 1..device.ddlen |-> 0],
                       buflen)

\* "if length != n: raise ValueError" after the read r
full_length(r, n) ==
    IF r.status # "ok" THEN [status |-> r.status, buf |-> <<>>, requests |-> r.requests]
    ELSE IF r.length # n
         THEN [status |-> "ValueError", buf |-> <<>>, requests |-> r.requests]
    ELSE [status |-> "ok", buf |-> r.buf, requests |-> r.requests]

get_device_descriptor(device) ==
    full_length(get_descriptor(device, DESC_DEVICE, DeviceDescriptorLen),
                DeviceDescriptorLen)

\* the read r, made after the requests of first
after_requests(first, r) == [r EXCEPT !.requests = first.requests \o @]

\* get_configuration_descriptor without the length check of the header read
read_whole_unchecked(device, r1) ==
    IF r1.status # "ok"
    THEN [status |-> r1.status, buf |-> <<>>, requests |-> r1.requests]
    ELSE after_requests(r1,
            full_length(get_descriptor(device, DESC_CONFIGURATION,
                                       r1.buf[4] * 256 + r1.buf[3]),
                        r1.buf[4] * 256 + r1.buf[3]))

\* get_configuration_descriptor reading wTotalLength high byte first
read_whole_big_endian(device, r1) ==
    IF r1.status # "ok"
    THEN [status |-> r1.status, buf |-> <<>>, requests |-> r1.requests]
    ELSE IF r1.length < ConfigHeaderLen
         THEN [status |-> "ValueError", buf |-> <<>>, requests |-> r1.requests]
    ELSE after_requests(r1,
            full_length(get_descriptor(device, DESC_CONFIGURATION,
                                       r1.buf[3] * 256 + r1.buf[4]),
                        r1.buf[3] * 256 + r1.buf[4]))

\* get_configuration_descriptor after its first read r1, of the header
read_whole_configuration(device, r1) ==
    IF r1.status # "ok"
    THEN [status |-> r1.status, buf |-> <<>>, requests |-> r1.requests]
    ELSE IF r1.length < ConfigHeaderLen
         THEN [status |-> "ValueError", buf |-> <<>>, requests |-> r1.requests]
    ELSE after_requests(r1,
            full_length(get_descriptor(device, DESC_CONFIGURATION,
                                       r1.buf[4] * 256 + r1.buf[3]),
                        r1.buf[4] * 256 + r1.buf[3]))

get_configuration_descriptor(device) ==
    read_whole_configuration(device,
                             get_descriptor(device, DESC_CONFIGURATION, ConfigHeaderLen))

\* ------------------------------------------------------------ device filter
\* a filter slot holds None or a set; Python tests the slot for truth
NoSet == [none |-> TRUE, set |-> {}]
SetOf(S) == [none |-> FALSE, set |-> S]
Truthy(slot) == ~slot.none /\ slot.set # {}

DefaultFilters ==
    [allowed_vids |-> NoSet, blocked_vids |-> SetOf({}),
     allowed_manufacturers |-> NoSet, blocked_manufacturers |-> SetOf({})]

\* a filter that lets every interface through
passes_every_filter(info, filters) == "pass"

\* "pass", "drop", or "AttributeError" (None has no lower())
device_passes_filter(info, filters) ==
    IF info.manufacturer.tag = "none" THEN "AttributeError"
    ELSE LET vid == info.vid
             manufacturer == Lower(info.manufacturer.val)
         IN IF Truthy(filters.allowed_vids) /\ vid \notin filters.allowed_vids.set
               THEN "drop"
            ELSE IF vid \in filters.blocked_vids.set THEN "drop"
            ELSE IF Truthy(filters.allowed_manufacturers)
                    /\ manufacturer \notin filters.allowed_manufacturers.set
               THEN "drop"
            ELSE IF manufacturer \in filters.blocked_manufacturers.set THEN "drop"
            ELSE "pass"

\* --------------------------------------------------------- descriptor walk
\* Python's config_descriptor[i]
At(cfg, i) == cfg[i + 1]

EndpointNone == [status |-> "none", address |-> 0]
EndpointHang == [status |-> "hang", address |-> 0]

\* the search that does not stop at the next interface descriptor
RECURSIVE find_input_endpoint_across(_, _)
find_input_endpoint_across(cfg, i) ==
    IF ~(i < Len(cfg)) THEN EndpointNone
    ELSE IF i + 1 >= Len(cfg) THEN EndpointNone
    ELSE LET descriptor_len == At(cfg, i)
             descriptor_type == At(cfg, i + 1)
             advance == IF descriptor_len = 0 THEN EndpointHang
                        ELSE find_input_endpoint_across(cfg, i + descriptor_len)
         IN IF descriptor_type = DESC_ENDPOINT
            THEN IF i + 2 >= Len(cfg) THEN EndpointNone
                 ELSE IF AndDirIn(At(cfg, i + 2)) # 0
                      THEN [status |-> "found", address |-> At(cfg, i + 2)]
                      ELSE advance
            ELSE advance

\* _find_input_endpoint: "found" with the address, "none" (also after the
\* IndexError it catches), or "hang" when the loop stops advancing.
RECURSIVE find_input_endpoint(_, _)
find_input_endpoint(cfg, i) ==
    IF ~(i < Len(cfg)) THEN EndpointNone
    ELSE IF i + 1 >= Len(cfg) THEN EndpointNone
    ELSE LET descriptor_len == At(cfg, i)
             descriptor_type == At(cfg, i + 1)
             advance == IF descriptor_len = 0 THEN EndpointHang
                        ELSE find_input_endpoint(cfg, i + descriptor_len)
         IN IF descriptor_type = DESC_ENDPOINT
            THEN IF i + 2 >= Len(cfg) THEN EndpointNone
                 ELSE IF AndDirIn(At(cfg, i + 2)) # 0
                      THEN [status |-> "found", address |-> At(cfg, i + 2)]
                      ELSE advance
            ELSE IF descriptor_type = DESC_INTERFACE THEN EndpointNone
            ELSE advance

\* ---------------------------------------------------------------- classifier
keyboard_keywords == << <<"k","e","y","b","o","a","r","d">>, <<"k","b","d">>,
                        <<"k","e","y","p","a","d">> >>
mouse_keywords == << <<"m","o","u","s","e">>, <<"p","o","i","n","t","e","r">>,
                     <<"t","r","a","c","k","b","a","l","l">>,
                     <<"t","o","u","c","h","p","a","d">>,
                     <<"t","r","a","c","k","p","a","d">> >>
gamepad_keywords == << <<"g","a","m","e","p","a","d">>,
                       <<"c","o","n","t","r","o","l","l","e","r">>,
                       <<"j","o","y","s","t","i","c","k">>, <<"x","b","o","x">>,
                       <<"p","l","a","y","s","t","a","t","i","o","n">>,
                       <<"p","s","3">>, <<"p","s","4">>, <<"p","s","5">> >>
known_keyboards == {<<1133, 50475>>, <<16700, 8467>>, <<1118, 1872>>}
known_mice == {<<1133, 49271>>, <<5426, 55>>, <<1118, 64>>}
known_gamepads == {<<1118, 654>>, <<1118, 721>>, <<1356, 616>>, <<1356, 1476>>,
                   <<1356, 3302>>}

AnyKeyword(keywords, text) == \E k \in 1..Len(keywords) : Contains(text, keywords[k])

\* the classifier with the product keywords looked at before the boot
\* protocol
classify_keywords_first(device_info) ==
    LET protocol == device_info.interface_protocol
        subclass == device_info.interface_subclass
        product == IF device_info.product.tag = "str" /\ device_info.product.val # <<>>
                   THEN Lower(device_info.product.val) ELSE <<>>
        product_lower == Lower(product)
    IN IF AnyKeyword(keyboard_keywords, product_lower) THEN "keyboard"
       ELSE IF AnyKeyword(mouse_keywords, product_lower) THEN "mouse"
       ELSE IF AnyKeyword(gamepad_keywords, product_lower) THEN "gamepad"
       ELSE IF subclass = BOOT_SUBCLASS /\ protocol = KEYBOARD_PROTOCOL THEN "keyboard"
       ELSE IF subclass = BOOT_SUBCLASS /\ protocol = MOUSE_PROTOCOL THEN "mouse"
       ELSE IF <<device_info.vid, device_info.pid>> \in known_keyboards THEN "keyboard"
       ELSE IF <<device_info.vid, device_info.pid>> \in known_mice THEN "mouse"
       ELSE IF <<device_info.vid, device_info.pid>> \in known_gamepads THEN "gamepad"
       ELSE "gamepad"

classify_hid_device(device_info) ==
    LET protocol == device_info.interface_protocol
        subclass == device_info.interface_subclass
        product == IF device_info.product.tag = "str" /\ device_info.product.val # <<>>
                   THEN Lower(device_info.product.val) ELSE <<>>
        product_lower == Lower(product)
    IN IF subclass = BOOT_SUBCLASS /\ protocol = KEYBOARD_PROTOCOL THEN "keyboard"
       ELSE IF subclass = BOOT_SUBCLASS /\ protocol = MOUSE_PROTOCOL THEN "mouse"
       ELSE IF AnyKeyword(keyboard_keywords, product_lower) THEN "keyboard"
       ELSE IF AnyKeyword(mouse_keywords, product_lower) THEN "mouse"
       ELSE IF AnyKeyword(gamepad_keywords, product_lower) THEN "gamepad"
       ELSE IF <<device_info.vid, device_info.pid>> \in known_keyboards THEN "keyboard"
       ELSE IF <<device_info.vid, device_info.pid>> \in known_mice THEN "mouse"
       ELSE IF <<device_info.vid, device_info.pid>> \in known_gamepads THEN "gamepad"
       ELSE "gamepad"

\* ------------------------------------------------------------------ analyser
\* the while loop of _analyze_device from offset i with hid_interfaces = hid:
\* "ok" with the list, the exception that left the loop, or "hang"
\* the cursor's history: the walk that went on from offset i after reading
\* the record there
Visit(i, r) == [r EXCEPT !.visited = <<i>> \o @]

\* the walk stops at offset i, having read (part of) the record there
StopAt(i, status, hid) ==
    [status |-> status, hid |-> hid, visited |-> <<i>>, cursor |-> i]

RECURSIVE collect_hid_interfaces(_, _, _, _, _)
collect_hid_interfaces(d, cfg, i, hid, filters) ==
    IF ~(i < Len(cfg))
    THEN [status |-> "ok", hid |-> hid, visited |-> <<>>, cursor |-> i]
    ELSE IF i + 1 >= Len(cfg) THEN StopAt(i, "IndexError", hid)
    ELSE
      LET descriptor_len == At(cfg, i)
          descriptor_type == At(cfg, i + 1)
          next(h) == IF descriptor_len = 0 THEN StopAt(i, "hang", h)
                     ELSE Visit(i, collect_hid_interfaces(d, cfg, i + descriptor_len, h, filters))
      IN IF descriptor_type # DESC_INTERFACE THEN next(hid)
         ELSE IF i + 7 >= Len(cfg) THEN StopAt(i, "IndexError", hid)
         ELSE IF At(cfg, i + 5) # HID_CLASS THEN next(hid)
         ELSE
           LET endpoint == find_input_endpoint(cfg, i + descriptor_len)
               interface_info ==
                   [device |-> d,
                    interface_index |-> At(cfg, i + 2),
                    endpoint_address |-> endpoint.address,
                    interface_class |-> At(cfg, i + 5),
                    interface_subclass |-> At(cfg, i + 6),
                    interface_protocol |-> At(cfg, i + 7),
                    vid |-> Device[d].idVendor,
                    pid |-> Device[d].idProduct,
                    manufacturer |-> GetAttr(Device[d].manufacturer, PyStr(S_Unknown)),
                    product |-> GetAttr(Device[d].product, PyStr(S_Unknown))]
               passes == device_passes_filter(interface_info, filters)
           IN IF endpoint.status = "hang" THEN StopAt(i, "hang", hid)
              ELSE IF endpoint.status = "none" THEN next(hid)
              ELSE IF passes = "AttributeError"
                   THEN StopAt(i, "AttributeError", hid)
              ELSE IF passes = "pass" THEN next(Append(hid, interface_info))
              ELSE next(hid)

\* ------------------------------------------------- find_boot_mouse_endpoint
CLASS_HID == 3

\* current_interface is <<>> for None, <<n>> for interface number n
MouseResult(status, value, visited, cursor) ==
    [status |-> status, value |-> value, visited |-> visited, cursor |-> cursor]

\* the while loop of find_boot_mouse_endpoint from offset i: "return" with
\* the pair found (<<>> for (None, None)), the exception that left the loop,
\* or "hang"
RECURSIVE boot_mouse_walk(_, _, _)
boot_mouse_walk(cfg, i, current_interface) ==
    IF ~(i < Len(cfg)) THEN MouseResult("return", <<>>, <<>>, i)
    ELSE IF i + 1 >= Len(cfg) THEN MouseResult("IndexError", <<>>, <<i>>, i)
    ELSE
      LET descriptor_len == At(cfg, i)
          descriptor_type == At(cfg, i + 1)
          next(c) == IF descriptor_len = 0 THEN MouseResult("hang", <<>>, <<i>>, i)
                     ELSE Visit(i, boot_mouse_walk(cfg, i + descriptor_len, c))
      IN IF descriptor_type = DESC_INTERFACE
         THEN IF i + 7 >= Len(cfg) THEN MouseResult("IndexError", <<>>, <<i>>, i)
              ELSE IF /\ At(cfg, i + 5) = CLASS_HID
                      /\ At(cfg, i + 6) = 1
                      /\ At(cfg, i + 7) = 2
                   THEN next(<<At(cfg, i + 2)>>)
                   ELSE next(<<>>)
         ELSE IF descriptor_type = DESC_ENDPOINT /\ current_interface # <<>>
         THEN IF i + 2 >= Len(cfg) THEN MouseResult("IndexError", <<>>, <<i>>, i)
              ELSE IF AndDirIn(At(cfg, i + 2)) # 0
                   THEN MouseResult("return", <<current_interface[1], At(cfg, i + 2)>>, <<i>>, i)
                   ELSE next(current_interface)
         ELSE next(current_interface)

\* the loop without "else: current_interface = None": the boot mouse
\* interface stays current over the interfaces that follow it
RECURSIVE boot_mouse_walk_sticky(_, _, _)
boot_mouse_walk_sticky(cfg, i, current_interface) ==
    IF ~(i < Len(cfg)) THEN MouseResult("return", <<>>, <<>>, i)
    ELSE IF i + 1 >= Len(cfg) THEN MouseResult("IndexError", <<>>, <<i>>, i)
    ELSE
      LET descriptor_len == At(cfg, i)
          descriptor_type == At(cfg, i + 1)
          next(c) == IF descriptor_len = 0 THEN MouseResult("hang", <<>>, <<i>>, i)
                     ELSE Visit(i, boot_mouse_walk_sticky(cfg, i + descriptor_len, c))
      IN IF descriptor_type = DESC_INTERFACE
         THEN IF i + 7 >= Len(cfg) THEN MouseResult("IndexError", <<>>, <<i>>, i)
              ELSE IF /\ At(cfg, i + 5) = CLASS_HID
                      /\ At(cfg, i + 6) = 1
                      /\ At(cfg, i + 7) = 2
                   THEN next(<<At(cfg, i + 2)>>)
                   ELSE next(current_interface)
         ELSE IF descriptor_type = DESC_ENDPOINT /\ current_interface # <<>>
         THEN IF i + 2 >= Len(cfg) THEN MouseResult("IndexError", <<>>, <<i>>, i)
              ELSE IF AndDirIn(At(cfg, i + 2)) # 0
                   THEN MouseResult("return", <<current_interface[1], At(cfg, i + 2)>>, <<i>>, i)
                   ELSE next(current_interface)
         ELSE next(current_interface)

search_configuration_sticky(config) ==
    IF config.status # "ok" THEN MouseResult(config.status, <<>>, <<>>, 0)
    ELSE boot_mouse_walk_sticky(config.buf, 0, <<>>)

\* the search in the configuration that was fetched, or the fetch's exception
search_configuration(config) ==
    IF config.status # "ok" THEN MouseResult(config.status, <<>>, <<>>, 0)
    ELSE boot_mouse_walk(config.buf, 0, <<>>)

find_boot_mouse_endpoint(device) ==
    search_configuration(get_configuration_descriptor(device))

\* interfaces_by_type: a dict, kept as its items in insertion order
RECURSIVE group_by_type(_, _)
group_by_type(hid, by_type) ==
    IF hid = <<>> THEN by_type
    ELSE LET interface_info == Head(hid)
             interface_type == classify_hid_device(interface_info)
             known == \E k \in 1..Len(by_type) : by_type[k].type = interface_type
         IN group_by_type(Tail(hid),
              IF known
              THEN [k \in 1..Len(by_type) |->
                      IF by_type[k].type = interface_type
                      THEN [by_type[k] EXCEPT !.interfaces = Append(@, interface_info)]
                      ELSE by_type[k]]
              ELSE Append(by_type, [type |-> interface_type,
                                    interfaces |-> <<interface_info>>]))

ExpectedProtocol(device_type) ==
    CASE device_type = "keyboard" -> KEYBOARD_PROTOCOL
      [] device_type = "mouse" -> MOUSE_PROTOCOL
      [] OTHER -> NO_PROTOCOL

\* the selection without the look at the protocol: the first boot interface
select_first_boot_interface(interfaces, device_type) ==
    LET IsBoot(iface) == iface.interface_subclass = BOOT_SUBCLASS
        boot_interfaces == SelectSeq(interfaces, IsBoot)
    IN IF boot_interfaces # <<>> THEN boot_interfaces[1] ELSE interfaces[1]

select_best_interface_for_type(interfaces, device_type) ==
    LET IsBoot(iface) == iface.interface_subclass = BOOT_SUBCLASS
        boot_interfaces == SelectSeq(interfaces, IsBoot)
        Matches(iface) == iface.interface_protocol = ExpectedProtocol(device_type)
        matching == SelectSeq(boot_interfaces, Matches)
    IN IF boot_interfaces # <<>>
       THEN IF matching # <<>> THEN matching[1] ELSE boot_interfaces[1]
       ELSE interfaces[1]

\* getattr(device, 'serial_number', None)
SerialOrNone(d) == GetAttr(Device[d].serial_number, PyNone)

\* a duplicate check that never finds the device
never_cached(bucket, d) == FALSE

device_already_cached(bucket, d) ==
    \E k \in 1..Len(bucket) :
        /\ Device[bucket[k].device].idVendor = Device[d].idVendor
        /\ Device[bucket[k].device].idProduct = Device[d].idProduct
        /\ SerialOrNone(bucket[k].device) = SerialOrNone(d)

\* the f-string of _analyze_device: the continuation line's indentation is
\* inside the literal
StoreDeviceId(d) ==
    Hex4(Device[d].idVendor) \o <<":">> \o Hex4(Device[d].idProduct) \o <<":">>
    \o Spaces(StorePad)
    \o Str(GetAttr(Device[d].serial_number, PyStr(S_no_serial)))

\* the f-string of is_composite_device and get_companion_interfaces
LookupDeviceId(d) ==
    Hex4(Device[d].idVendor) \o <<":">> \o Hex4(Device[d].idProduct) \o <<":", " ">>
    \o Spaces(LookupPad)
    \o Str(GetAttr(Device[d].serial_number, PyStr(S_no_serial)))

BucketOf(device_type) ==
    CASE device_type = "keyboard" -> "keyboards"
      [] device_type = "mouse" -> "mice"
      [] device_type = "gamepad" -> "gamepads"

DictPut(dict, key, value) ==
    [k \in (DOMAIN dict) \cup {key} |-> IF k = key THEN value ELSE dict[k]]

\* a store that puts every interface of a classification in the bucket
RECURSIVE store_every_interface(_, _, _, _)
store_every_interface(cache, d, by_type, k) ==
    IF k > Len(by_type) THEN cache
    ELSE store_every_interface(
           [cache EXCEPT ![BucketOf(by_type[k].type)] = @ \o by_type[k].interfaces],
           d, by_type, k + 1)

\* "Store device in ALL applicable categories"
RECURSIVE store_by_type(_, _, _, _)
store_by_type(cache, d, by_type, k) ==
    IF k > Len(by_type) THEN cache
    ELSE LET device_type == by_type[k].type
             best_interface ==
                 select_best_interface_for_type(by_type[k].interfaces, device_type)
             bucket == BucketOf(device_type)
         IN store_by_type(
              IF device_already_cached(cache[bucket], d) THEN cache
              ELSE [cache EXCEPT ![bucket] = Append(@, best_interface)],
              d, by_type, k + 1)

TypesOf(by_type) == [k \in 1..Len(by_type) |-> by_type[k].type]

\* the except clauses of _analyze_device, without the one for USBError
AnalyzeCatchesNoUSBError == {"IndexError", "AttributeError"}

\* the except clauses of _analyze_device
AnalyzeCatches == {"USBError", "IndexError", "AttributeError"}

\* an exception raised inside the try block of _analyze_device: caught by one
\* of its except clauses, or on its way to the caller
raised_in_analysis(cache, raised) ==
    IF raised \in AnalyzeCatches
    THEN [cache |-> cache, status |-> "ok", caught |-> raised]
    ELSE [cache |-> cache, status |-> raised, caught |-> "none"]

\* interfaces_by_type cut down to the interface selected for each type
BestOnly(by_type) ==
    [k \in 1..Len(by_type) |->
        [type |-> by_type[k].type,
         interfaces |-> <<select_best_interface_for_type(by_type[k].interfaces,
                                                         by_type[k].type)>>]]

\* the composite record made of the selected interfaces only
store_device_best_only(cache, d, interfaces_by_type) ==
    [cache |-> IF Len(interfaces_by_type) > 1
               THEN [store_by_type(cache, d, interfaces_by_type, 1)
                        EXCEPT !.composite_devices =
                           DictPut(@, StoreDeviceId(d),
                                   [device |-> d,
                                    interfaces_by_type |-> BestOnly(interfaces_by_type),
                                    product |-> GetAttr(Device[d].product, PyStr(S_Unknown)),
                                    types |-> TypesOf(interfaces_by_type)])]
               ELSE store_by_type(cache, d, interfaces_by_type, 1),
     status |-> "ok", caught |-> "none"]

\* "Store device in ALL applicable categories", then "Store composite device
\* info if multiple types found"
store_device(cache, d, interfaces_by_type) ==
    [cache |-> IF Len(interfaces_by_type) > 1
               THEN [store_by_type(cache, d, interfaces_by_type, 1)
                        EXCEPT !.composite_devices =
                           DictPut(@, StoreDeviceId(d),
                                   [device |-> d,
                                    interfaces_by_type |-> interfaces_by_type,
                                    product |-> GetAttr(Device[d].product, PyStr(S_Unknown)),
                                    types |-> TypesOf(interfaces_by_type)])]
               ELSE store_by_type(cache, d, interfaces_by_type, 1),
     status |-> "ok", caught |-> "none"]

\* _analyze_device after the descriptor walk that ended as walk
analyze_interfaces(cache, d, walk) ==
    IF walk.status # "ok" THEN raised_in_analysis(cache, walk.status)
    ELSE IF walk.hid = <<>> THEN [cache |-> cache, status |-> "ok", caught |-> "none"]
    ELSE store_device(cache, d, group_by_type(walk.hid, <<>>))

\* _analyze_device after get_configuration_descriptor ended as config
analyze_configuration(cache, filters, d, config) ==
    IF config.status # "ok" THEN raised_in_analysis(cache, config.status)
    ELSE analyze_interfaces(cache, d,
                            collect_hid_interfaces(d, config.buf, 0, <<>>, filters))

\* _analyze_device: the cache afterwards, what left the function ("ok" for a
\* normal return, else the escaping exception or "hang"), and what it caught
analyze_device(cache, filters, d) ==
    analyze_configuration(cache, filters, d, get_configuration_descriptor(Device[d]))

\* ---------------------------------------------------------------- the state
VARIABLES
    bus,                      \* what usb.core.find(find_all=True) yields now
    now,                      \* time.monotonic()
    device_cache,             \* _device_cache
    cache_timeout,            \* _cache_timeout
    device_change_callbacks,  \* _device_change_callbacks
    device_filters,           \* _device_filters
    call,                     \* the last API call and its arguments
    outcome,                  \* "return", the exception it raised, or "hang"
    ret,                      \* the value it returned
    scan                      \* what the call's refresh did

vars == <<bus, now, device_cache, cache_timeout, device_change_callbacks,
          device_filters, call, outcome, ret, scan>>

BucketNames == <<"keyboards", "mice", "gamepads">>
TypeNames == {"keyboard", "mouse", "gamepad", "joystick"}
Indexes == {-1, 0, 1}
TimeoutArgs == {-1, 0, 2}
CallbackIds == {"cbA", "cbB"}
\* what a registered callback does when it is called
CallbackRaises == [cbA |-> FALSE, cbB |-> TRUE]

\* last_scan: <<>> is None, <<t>> is the time t
NoScan == <<>>

EmptyCache ==
    [keyboards |-> <<>>, mice |-> <<>>, gamepads |-> <<>>,
     composite_devices |-> <<>>, last_scan |-> NoScan]

NoValue == [kind |-> "none", v |-> <<>>]
NoScanLog == [scanned |-> FALSE, analysed |-> <<>>, caught |-> <<>>, notified |-> <<>>]

BusesOver(pool) == UNION {[1..n -> pool] : n \in 0..MaxBus}

\* the module as imported, on a bus that holds devices of pool
InitOver(pool) ==
    /\ bus \in BusesOver(pool)
    /\ now = 0
    /\ device_cache = EmptyCache
    /\ cache_timeout = DefaultCacheTimeout
    /\ device_change_callbacks = <<>>
    /\ device_filters = DefaultFilters
    /\ call = [op |-> "import", device_type |-> "", index |-> 0, refresh |-> FALSE]
    /\ outcome = "return"
    /\ ret = NoValue
    /\ scan = NoScanLog

Init == InitOver(DeviceIds)

\* ------------------------------------------------------------ notification
\* device_type[:-1] of the three bucket names
DropLastChar(device_type) ==
    CASE device_type = "keyboards" -> "keyboard"
      [] device_type = "mice" -> "mic"
      [] device_type = "gamepads" -> "gamepad"

\* the callback loop without its try/except: it ends at the first callback
\* that raises
CallAllUntilRaise(callbacks, bucket, action, index) ==
    LET Raises(k) == CallbackRaises[callbacks[k]]
        last == IF \E k \in 1..Len(callbacks) : Raises(k)
                THEN CHOOSE k \in 1..Len(callbacks) :
                        Raises(k) /\ \A j \in 1..(k - 1) : ~Raises(j)
                ELSE Len(callbacks)
    IN [k \in 1..last |->
          [callback |-> callbacks[k], bucket |-> bucket,
           device_type |-> DropLastChar(bucket), action |-> action,
           index |-> index, raised |-> Raises(k)]]

\* one "for callback in _device_change_callbacks" loop
CallAll(callbacks, bucket, action, index) ==
    [k \in 1..Len(callbacks) |->
        [callback |-> callbacks[k], bucket |-> bucket,
         device_type |-> DropLastChar(bucket), action |-> action,
         index |-> index, raised |-> CallbackRaises[callbacks[k]]]]

\* a change detection that compares the entries of a bucket, not its size
RECURSIVE notify_content_changes(_, _, _, _)
notify_content_changes(old_cache, new_cache, callbacks, k) ==
    IF k > Len(BucketNames) THEN <<>>
    ELSE LET device_type == BucketNames[k]
             old_count == Len(old_cache[device_type])
             new_count == Len(new_cache[device_type])
             here == IF new_count > old_count
                     THEN CallAll(callbacks, device_type, "added", new_count - 1)
                     ELSE IF new_count < old_count
                     THEN CallAll(callbacks, device_type, "removed", old_count - 1)
                     ELSE IF new_cache[device_type] # old_cache[device_type]
                     THEN CallAll(callbacks, device_type, "added", new_count - 1)
                     ELSE <<>>
         IN here \o notify_content_changes(old_cache, new_cache, callbacks, k + 1)

\* _notify_device_changes: the callback invocations, in order
RECURSIVE notify_device_changes(_, _, _, _)
notify_device_changes(old_cache, new_cache, callbacks, k) ==
    IF k > Len(BucketNames) THEN <<>>
    ELSE LET device_type == BucketNames[k]
             old_count == Len(old_cache[device_type])
             new_count == Len(new_cache[device_type])
             here == IF new_count > old_count
                     THEN CallAll(callbacks, device_type, "added", new_count - 1)
                     ELSE IF new_count < old_count
                     THEN CallAll(callbacks, device_type, "removed", old_count - 1)
                     ELSE <<>>
         IN here \o notify_device_changes(old_cache, new_cache, callbacks, k + 1)

\* ------------------------------------------------------------------ refresh
\* "for device in usb.core.find(find_all=True): _analyze_device(device)";
\* scan_on is the loop after _analyze_device(devices[k]) ended as r
RECURSIVE scan_devices(_, _, _, _, _, _)
RECURSIVE scan_on(_, _, _, _, _, _)
scan_on(r, filters, devices, k, analysed, caught) ==
    IF r.status # "ok"
    THEN [cache |-> r.cache, status |-> r.status,
          analysed |-> Append(analysed, devices[k]), caught |-> caught]
    ELSE scan_devices(r.cache, filters, devices, k + 1,
                      Append(analysed, devices[k]), Append(caught, r.caught))

scan_devices(cache, filters, devices, k, analysed, caught) ==
    IF k > Len(devices)
    THEN [cache |-> cache, status |-> "ok", analysed |-> analysed, caught |-> caught]
    ELSE scan_on(analyze_device(cache, filters, devices[k]),
                 filters, devices, k, analysed, caught)

\* the comparison of the early return, turned around
CacheIsFreshTurned(cache, timeout, current_time) ==
    /\ cache.last_scan # NoScan
    /\ timeout > 0
    /\ current_time - cache.last_scan[1] > timeout

\* the early return of _refresh_device_cache
CacheIsFresh(cache, timeout, current_time) ==
    /\ cache.last_scan # NoScan
    /\ timeout > 0
    /\ current_time - cache.last_scan[1] < timeout

\* the except clauses around the loop of _refresh_device_cache
RefreshCatches == {"USBError", "NoBackendError"}

\* a refresh that does not clear the cache before its scan
kept_cache(cache) == cache

\* "Clear cache"
cleared_cache(cache) ==
    [cache EXCEPT !.keyboards = <<>>, !.mice = <<>>, !.gamepads = <<>>,
                  !.composite_devices = <<>>]

\* a refresh that notifies the callbacks of the buckets as the scan left
\* them, also when an exception ended the scan and last_scan is not written
finish_refresh_notifying_always(old_cache, scanned, callbacks, current_time) ==
    IF scanned.status # "ok" /\ scanned.status \notin RefreshCatches
    THEN [cache |-> scanned.cache, status |-> scanned.status,
          log |-> [scanned |-> TRUE, analysed |-> scanned.analysed,
                   caught |-> scanned.caught,
                   notified |-> notify_device_changes(old_cache, scanned.cache,
                                                      callbacks, 1)]]
    ELSE [cache |-> [scanned.cache EXCEPT !.last_scan = <<current_time>>],
          status |-> "ok",
          log |-> [scanned |-> TRUE, analysed |-> scanned.analysed,
                   caught |-> scanned.caught,
                   notified |->
                      notify_device_changes(
                          old_cache,
                          [scanned.cache EXCEPT !.last_scan = <<current_time>>],
                          callbacks, 1)]]

\* _refresh_device_cache after its scan loop ended as scanned: an exception
\* that no except clause names leaves the function there; otherwise last_scan
\* is set and the callbacks are notified.  A USBError that leaves the loop is
\* caught and ends the loop.
finish_refresh(old_cache, scanned, callbacks, current_time) ==
    IF scanned.status # "ok" /\ scanned.status \notin RefreshCatches
    THEN [cache |-> scanned.cache, status |-> scanned.status,
          log |-> [scanned |-> TRUE, analysed |-> scanned.analysed,
                   caught |-> scanned.caught, notified |-> <<>>]]
    ELSE [cache |-> [scanned.cache EXCEPT !.last_scan = <<current_time>>],
          status |-> "ok",
          log |-> [scanned |-> TRUE, analysed |-> scanned.analysed,
                   caught |-> scanned.caught,
                   notified |->
                      notify_device_changes(
                          old_cache,
                          [scanned.cache EXCEPT !.last_scan = <<current_time>>],
                          callbacks, 1)]]

\* _refresh_device_cache(force_refresh): the cache afterwards, how the call
\* ended ("ok", "ValueError" or "hang") and what it did on the way
refresh_device_cache(cache, force_refresh, timeout, callbacks, filters, devices, current_time) ==
    IF ~force_refresh /\ CacheIsFresh(cache, timeout, current_time)
    THEN [cache |-> cache, status |-> "ok", log |-> NoScanLog]
    ELSE finish_refresh(cache,
                        scan_devices(cleared_cache(cache), filters, devices, 1, <<>>, <<>>),
                        callbacks, current_time)

\* the refresh of a call, comparing the rebuilt buckets with empty ones
\* instead of the buckets as they were before the call
RefreshFromEmpty(force_refresh) ==
    refresh_device_cache(EmptyCache, force_refresh, cache_timeout,
                         device_change_callbacks, device_filters, bus, now)

\* the refresh a call makes in the current state
Refresh(force_refresh) ==
    refresh_device_cache(device_cache, force_refresh, cache_timeout,
                         device_change_callbacks, device_filters, bus, now)

\* ------------------------------------------------------- the API, as results
\* Each operator gives what one call does in the current state: the cache it
\* leaves, its outcome ("return", an exception name, "hang"), the value it
\* returns and the log of its refresh.  Where a function goes on after a call
\* it made, the part after the call is an operator of that call's result.
Result(cache, how, value, log) ==
    [cache |-> cache, outcome |-> how, ret |-> value, log |-> log]

\* a call that starts with the refresh r and then returns value
AfterRefresh(r, value) ==
    IF r.status = "ok"
    THEN Result(r.cache, "return", value, r.log)
    ELSE Result(r.cache, r.status, NoValue, r.log)

IsTypeName(device_type) == device_type \in {"keyboard", "mouse", "gamepad"}

\* "return len(_device_cache['keyboards'])" after the refresh r
bucket_length(r, device_type) ==
    AfterRefresh(r, [kind |-> "int", v |-> Len(r.cache[BucketOf(device_type)])])

\* count_keyboards / count_mice / count_gamepads
count_devices(device_type, refresh) == bucket_length(Refresh(refresh), device_type)

\* the lookup as plain subscription, bucket[index]: IndexError past the end
info_at_subscript(r, device_type, index) ==
    IF r.status = "ok" /\ ~(index < Len(r.cache[BucketOf(device_type)]))
    THEN Result(r.cache, "IndexError", NoValue, r.log)
    ELSE AfterRefresh(r,
            [kind |-> "pair",
             v |-> <<r.cache[BucketOf(device_type)][index + 1].interface_index,
                     r.cache[BucketOf(device_type)][index + 1].endpoint_address>>])

\* the interface index and endpoint address at index, or (None, None), after
\* the refresh r
info_at(r, device_type, index) ==
    AfterRefresh(r,
        IF index < Len(r.cache[BucketOf(device_type)])
        THEN [kind |-> "pair",
              v |-> <<r.cache[BucketOf(device_type)][index + 1].interface_index,
                      r.cache[BucketOf(device_type)][index + 1].endpoint_address>>]
        ELSE [kind |-> "none_pair", v |-> <<>>])

\* the query that refreshes before it looks at the sign of the index
get_device_info_after_refresh(device_type, index) ==
    IF index < 0
    THEN Result(Refresh(FALSE).cache,
                IF Refresh(FALSE).status = "ok" THEN "IndexError"
                ELSE Refresh(FALSE).status,
                NoValue, Refresh(FALSE).log)
    ELSE info_at(Refresh(FALSE), device_type, index)

\* get_keyboard_info / get_mouse_info / get_gamepad_info
get_device_info(device_type, index) ==
    IF index < 0
    THEN Result(device_cache, "IndexError", NoValue, NoScanLog)
    ELSE info_at(Refresh(FALSE), device_type, index)

\* the device at index, or None, after the refresh r
device_at(r, device_type, index) ==
    AfterRefresh(r,
        IF index < Len(r.cache[BucketOf(device_type)])
        THEN [kind |-> "device", v |-> r.cache[BucketOf(device_type)][index + 1].device]
        ELSE NoValue)

\* get_keyboard_device / get_mouse_device / get_gamepad_device
get_device(device_type, index) ==
    IF index < 0
    THEN Result(device_cache, "IndexError", NoValue, NoScanLog)
    ELSE device_at(Refresh(FALSE), device_type, index)

get_info(device_type, index) ==
    IF IsTypeName(device_type)
    THEN get_device_info(device_type, index)
    ELSE Result(device_cache, "ValueError", NoValue, NoScanLog)

SummaryOf(bucket) ==
    [count |-> Len(bucket),
     devices |-> [k \in 1..Len(bucket) |->
                    [index |-> k - 1, vid |-> bucket[k].vid, pid |-> bucket[k].pid,
                     manufacturer |-> bucket[k].manufacturer,
                     product |-> bucket[k].product,
                     interface_index |-> bucket[k].interface_index,
                     endpoint_address |-> bucket[k].endpoint_address]]]

\* the summary list_all_hid_devices builds after the refresh r
summary_after(r) ==
    AfterRefresh(r, [kind |-> "summary",
                     v |-> [keyboards |-> SummaryOf(r.cache.keyboards),
                            mice |-> SummaryOf(r.cache.mice),
                            gamepads |-> SummaryOf(r.cache.gamepads)]])

list_all_hid_devices == summary_after(Refresh(TRUE))

\* "return _device_cache['composite_devices'].copy()" after the refresh r
composite_copy_after(r) ==
    AfterRefresh(r, [kind |-> "dict", v |-> r.cache.composite_devices])

get_composite_device_info == composite_copy_after(Refresh(FALSE))

force_refresh == AfterRefresh(Refresh(TRUE), NoValue)

NotComposite == [kind |-> "composite", v |-> [is_composite |-> FALSE, other_types |-> <<>>]]

\* is_composite_device after its get_*_device(index) call ended as g: an
\* exception of that call is swallowed by "except Exception"
composite_lookup(g, device_type) ==
    IF g.outcome = "hang" THEN g
    ELSE IF g.outcome # "return" \/ g.ret.kind = "none"
         THEN Result(g.cache, "return", NotComposite, g.log)
    ELSE IF LookupDeviceId(g.ret.v) \in DOMAIN g.cache.composite_devices
         THEN Result(g.cache, "return",
                     [kind |-> "composite",
                      v |-> [is_composite |-> TRUE,
                             other_types |->
                                SelectSeq(
                                   g.cache.composite_devices[LookupDeviceId(g.ret.v)].types,
                                   LAMBDA t : t # device_type)]],
                     g.log)
         ELSE Result(g.cache, "return", NotComposite, g.log)

is_composite_device(device_type, index) ==
    IF ~IsTypeName(device_type)
    THEN Result(device_cache, "return", NotComposite, NoScanLog)
    ELSE composite_lookup(get_device(device_type, index), device_type)

NoCompanions == [kind |-> "dict", v |-> <<>>]

\* the companions dict built from composite_info['interfaces_by_type']
CompanionsOf(by_type, device_type) ==
    LET others == {by_type[k].type : k \in 1..Len(by_type)} \ {device_type}
        InterfacesOf(t) ==
            by_type[CHOOSE k \in 1..Len(by_type) : by_type[k].type = t].interfaces
    IN [t \in others |->
          LET best_interface == select_best_interface_for_type(InterfacesOf(t), t)
          IN [interface_index |-> best_interface.interface_index,
              endpoint_address |-> best_interface.endpoint_address,
              interface_info |-> best_interface]]

\* get_companion_interfaces after its get_*_device(index) call ended as g
companion_lookup(g, device_type) ==
    IF g.outcome = "hang" THEN g
    ELSE IF g.outcome # "return" \/ g.ret.kind = "none"
         THEN Result(g.cache, "return", NoCompanions, g.log)
    ELSE IF LookupDeviceId(g.ret.v) \in DOMAIN g.cache.composite_devices
         THEN Result(g.cache, "return",
                     [kind |-> "dict",
                      v |-> CompanionsOf(
                               g.cache.composite_devices[LookupDeviceId(g.ret.v)]
                                  .interfaces_by_type,
                               device_type)],
                     g.log)
         ELSE Result(g.cache, "return", NoCompanions, g.log)

get_companion_interfaces(device_type, index) ==
    IF ~IsTypeName(device_type)
    THEN Result(device_cache, "return", NoCompanions, NoScanLog)
    ELSE companion_lookup(get_device(device_type, index), device_type)

Bool(b) == [kind |-> "bool", v |-> b]

\* a control transfer to a device that has left the bus raises USBError
OnBus(d) == \E k \in 1..Len(bus) : bus[k] = d

\* "desc = get_device_descriptor(device); return len(desc) == 18", with
\* USBError and every other exception answered False
descriptor_probe(d) ==
    /\ OnBus(d)
    /\ get_device_descriptor(Device[d]).status = "ok"
    /\ Len(get_device_descriptor(Device[d]).buf) = DeviceDescriptorLen

\* the probe without the outer "except Exception"
connection_probe_uncaught(g) ==
    IF g.outcome # "return" THEN g
    ELSE IF g.ret.kind = "none" THEN Result(g.cache, "return", Bool(FALSE), g.log)
    ELSE Result(g.cache, "return", Bool(descriptor_probe(g.ret.v)), g.log)

\* is_device_connected after its get_*_device(index) call ended as g
connection_probe(g) ==
    IF g.outcome = "hang" THEN g
    ELSE IF g.outcome # "return" \/ g.ret.kind = "none"
         THEN Result(g.cache, "return", Bool(FALSE), g.log)
    ELSE Result(g.cache, "return", Bool(descriptor_probe(g.ret.v)), g.log)

is_device_connected(device_type, index) ==
    IF ~IsTypeName(device_type)
    THEN Result(device_cache, "return", Bool(FALSE), NoScanLog)
    ELSE connection_probe(get_device(device_type, index))

\* -------------------------------------------------------------- the actions
\* a call that hangs never returns: nothing runs after it
Running == outcome # "hang"

Called(op, device_type, index, refresh) ==
    [op |-> op, device_type |-> device_type, index |-> index, refresh |-> refresh]

\* the state after an API call that ends as r
Does(c, r) ==
    /\ Running
    /\ call' = c
    /\ device_cache' = r.cache
    /\ outcome' = r.outcome
    /\ ret' = r.ret
    /\ scan' = r.log
    /\ UNCHANGED <<bus, now, cache_timeout, device_change_callbacks, device_filters>>

Untouched == Result(device_cache, "return", NoValue, NoScanLog)

\* the environment: time passes, devices come and go
Environment ==
    /\ Running
    /\ call' = Called("environment", "", 0, FALSE)
    /\ outcome' = "return"
    /\ ret' = NoValue
    /\ scan' = NoScanLog
    /\ UNCHANGED <<device_cache, cache_timeout, device_change_callbacks, device_filters>>

Tick ==
    /\ now < MaxTime
    /\ now' = now + 1
    /\ UNCHANGED bus
    /\ Environment

Plug(d) ==
    /\ Len(bus) < MaxBus
    /\ bus' = Append(bus, d)
    /\ UNCHANGED now
    /\ Environment

Unplug(k) ==
    /\ k \in 1..Len(bus)
    /\ bus' = SubSeq(bus, 1, k - 1) \o SubSeq(bus, k + 1, Len(bus))
    /\ UNCHANGED now
    /\ Environment

SetCacheTimeout(timeout_seconds) ==
    /\ Running
    /\ cache_timeout' = Max(0, timeout_seconds)
    /\ call' = Called("set_cache_timeout", "", timeout_seconds, FALSE)
    /\ outcome' = "return"
    /\ ret' = NoValue
    /\ scan' = NoScanLog
    /\ UNCHANGED <<bus, now, device_cache, device_change_callbacks, device_filters>>

\* a registration that appends the callback whether or not it is in the list
RegisterWithoutLookup(callback) ==
    /\ Running
    /\ device_change_callbacks' = Append(device_change_callbacks, callback)
    /\ call' = Called("register_device_change_callback", callback, 0, FALSE)
    /\ outcome' = "return"
    /\ ret' = NoValue
    /\ scan' = NoScanLog
    /\ UNCHANGED <<bus, now, device_cache, cache_timeout, device_filters>>

RegisterDeviceChangeCallback(callback) ==
    /\ Running
    /\ device_change_callbacks' =
          IF \E k \in 1..Len(device_change_callbacks) :
                 device_change_callbacks[k] = callback
          THEN device_change_callbacks
          ELSE Append(device_change_callbacks, callback)
    /\ call' = Called("register_device_change_callback", callback, 0, FALSE)
    /\ outcome' = "return"
    /\ ret' = NoValue
    /\ scan' = NoScanLog
    /\ UNCHANGED <<bus, now, device_cache, cache_timeout, device_filters>>

LowerAll(slot) == SetOf({Lower(m) : m \in slot.set})

SetDeviceFilter(allowed_vids, blocked_vids, allowed_manufacturers, blocked_manufacturers) ==
    /\ Running
    /\ device_filters' =
          [allowed_vids |->
               IF ~allowed_vids.none THEN allowed_vids
               ELSE device_filters.allowed_vids,
           blocked_vids |->
               IF ~blocked_vids.none THEN blocked_vids
               ELSE device_filters.blocked_vids,
           allowed_manufacturers |->
               IF ~allowed_manufacturers.none THEN LowerAll(allowed_manufacturers)
               ELSE device_filters.allowed_manufacturers,
           blocked_manufacturers |->
               IF ~blocked_manufacturers.none THEN LowerAll(blocked_manufacturers)
               ELSE device_filters.blocked_manufacturers]
    /\ call' = [op |-> "set_device_filter", device_type |-> "", index |-> 0,
                refresh |-> FALSE, allowed_vids |-> allowed_vids]
    /\ outcome' = "return"
    /\ ret' = NoValue
    /\ scan' = NoScanLog
    /\ UNCHANGED <<bus, now, device_cache, cache_timeout, device_change_callbacks>>

CountKeyboards(refresh) ==
    Does(Called("count_keyboards", "keyboard", 0, refresh),
         count_devices("keyboard", refresh))
CountMice(refresh) ==
    Does(Called("count_mice", "mouse", 0, refresh), count_devices("mouse", refresh))
CountGamepads(refresh) ==
    Does(Called("count_gamepads", "gamepad", 0, refresh),
         count_devices("gamepad", refresh))

GetKeyboardInfo(index) ==
    Does(Called("get_keyboard_info", "keyboard", index, FALSE),
         get_device_info("keyboard", index))
GetMouseInfo(index) ==
    Does(Called("get_mouse_info", "mouse", index, FALSE),
         get_device_info("mouse", index))
GetGamepadInfo(index) ==
    Does(Called("get_gamepad_info", "gamepad", index, FALSE),
         get_device_info("gamepad", index))

GetKeyboardDevice(index) ==
    Does(Called("get_keyboard_device", "keyboard", index, FALSE),
         get_device("keyboard", index))
GetMouseDevice(index) ==
    Does(Called("get_mouse_device", "mouse", index, FALSE), get_device("mouse", index))
GetGamepadDevice(index) ==
    Does(Called("get_gamepad_device", "gamepad", index, FALSE),
         get_device("gamepad", index))

GetInfo(device_type, index) ==
    Does(Called("get_info", device_type, index, FALSE), get_info(device_type, index))

ListAllHidDevices ==
    Does(Called("list_all_hid_devices", "", 0, TRUE), list_all_hid_devices)

GetCompositeDeviceInfo ==
    Does(Called("get_composite_device_info", "", 0, FALSE), get_composite_device_info)

IsCompositeDevice(device_type, index) ==
    Does(Called("is_composite_device", device_type, index, FALSE),
         is_composite_device(device_type, index))

GetCompanionInterfaces(device_type, index) ==
    Does(Called("get_companion_interfaces", device_type, index, FALSE),
         get_companion_interfaces(device_type, index))

ForceRefresh ==
    Does(Called("force_refresh", "", 0, TRUE), force_refresh)

IsDeviceConnected(device_type, index) ==
    Does(Called("is_device_connected", device_type, index, FALSE),
         is_device_connected(device_type, index))

\* ------------------------------------------------------- the specifications
VidArgs == {NoSet, SetOf({1133})}
BlockedVidArgs == {NoSet, SetOf({4660})}
ManufacturerArgs == {NoSet, SetOf({S_Logitech})}
BlockedManufacturerArgs == {NoSet, SetOf({S_Acme})}

Next ==
    \/ Tick
    \/ \E d \in DeviceIds : Plug(d)
    \/ \E k \in 1..MaxBus : Unplug(k)
    \/ \E t \in TimeoutArgs : SetCacheTimeout(t)
    \/ \E cb \in CallbackIds : RegisterDeviceChangeCallback(cb)
    \/ \E av \in VidArgs, bv \in BlockedVidArgs, am \in ManufacturerArgs,
          bm \in BlockedManufacturerArgs : SetDeviceFilter(av, bv, am, bm)
    \/ \E refresh \in BOOLEAN : CountKeyboards(refresh)
    \/ \E refresh \in BOOLEAN : CountMice(refresh)
    \/ \E refresh \in BOOLEAN : CountGamepads(refresh)
    \/ \E index \in Indexes : GetKeyboardInfo(index)
    \/ \E index \in Indexes : GetMouseInfo(index)
    \/ \E index \in Indexes : GetGamepadInfo(index)
    \/ \E index \in Indexes : GetKeyboardDevice(index)
    \/ \E index \in Indexes : GetMouseDevice(index)
    \/ \E index \in Indexes : GetGamepadDevice(index)
    \/ \E device_type \in TypeNames, index \in Indexes : GetInfo(device_type, index)
    \/ ListAllHidDevices
    \/ GetCompositeDeviceInfo
    \/ \E device_type \in TypeNames, index \in Indexes :
          IsCompositeDevice(device_type, index)
    \/ \E device_type \in TypeNames, index \in Indexes :
          GetCompanionInterfaces(device_type, index)
    \/ ForceRefresh
    \/ \E device_type \in TypeNames, index \in Indexes :
          IsDeviceConnected(device_type, index)

Spec == Init /\ [][Next]_vars

\* The cache's time-to-live: time passes, devices leave, the timeout is set,
\* and the calls that refresh-if-stale or force a refresh are made.
TTLPool == {"kbd", "combo", "short"}

NextTTL ==
    \/ Tick
    \/ \E k \in 1..MaxBus : Unplug(k)
    \/ \E t \in TimeoutArgs : SetCacheTimeout(t)
    \/ RegisterDeviceChangeCallback("cbA")
    \/ \E refresh \in BOOLEAN : CountKeyboards(refresh)
    \/ \E refresh \in BOOLEAN : CountMice(refresh)
    \/ \E refresh \in BOOLEAN : CountGamepads(refresh)
    \/ \E index \in Indexes : GetKeyboardInfo(index)
    \/ \E index \in Indexes : GetMouseInfo(index)
    \/ \E index \in Indexes : GetGamepadInfo(index)
    \/ \E index \in Indexes : GetKeyboardDevice(index)
    \/ \E index \in Indexes : GetMouseDevice(index)
    \/ \E index \in Indexes : GetGamepadDevice(index)
    \/ GetCompositeDeviceInfo
    \/ ForceRefresh

SpecTTL == InitOver(TTLPool) /\ [][NextTTL]_vars

\* One scan over every kind of device, readable or not.
NextScan ==
    \/ \E k \in 1..MaxBus : Unplug(k)
    \/ \E cb \in CallbackIds : RegisterDeviceChangeCallback(cb)
    \/ \E refresh \in BOOLEAN : CountKeyboards(refresh)
    \/ \E refresh \in BOOLEAN : CountMice(refresh)
    \/ \E refresh \in BOOLEAN : CountGamepads(refresh)
    \/ GetCompositeDeviceInfo
    \/ ForceRefresh

SpecScan == Init /\ [][NextScan]_vars

\* Change notification: devices come and go between forced refreshes.
NotifyPool == {"kbd", "combo", "pad"}

NextNotify ==
    \/ \E d \in NotifyPool : Plug(d)
    \/ \E k \in 1..MaxBus : Unplug(k)
    \/ \E cb \in CallbackIds : RegisterDeviceChangeCallback(cb)
    \/ \E refresh \in BOOLEAN : CountKeyboards(refresh)
    \/ ForceRefresh
    \/ ListAllHidDevices

SpecNotify == InitOver(NotifyPool) /\ [][NextNotify]_vars

\* The query surface, every argument, over a bus that does not change.
NextQuery ==
    \/ \E index \in Indexes : GetKeyboardInfo(index)
    \/ \E index \in Indexes : GetMouseInfo(index)
    \/ \E index \in Indexes : GetGamepadInfo(index)
    \/ \E index \in Indexes : GetKeyboardDevice(index)
    \/ \E index \in Indexes : GetMouseDevice(index)
    \/ \E index \in Indexes : GetGamepadDevice(index)
    \/ \E device_type \in TypeNames, index \in Indexes : GetInfo(device_type, index)
    \/ \E device_type \in TypeNames, index \in Indexes :
          IsCompositeDevice(device_type, index)
    \/ \E device_type \in TypeNames, index \in Indexes :
          GetCompanionInterfaces(device_type, index)
    \/ \E device_type \in TypeNames, index \in Indexes :
          IsDeviceConnected(device_type, index)
    \/ ForceRefresh

SpecQuery == Init /\ [][NextQuery]_vars

\* The classifier alone, applied to interface infos of every subclass and
\* protocol, product strings with and without keywords, and listed and
\* unlisted (vid, pid) pairs.
S_UsbKeyboardUpper == <<"U","S","B"," ","K","E","Y","B","O","A","R","D">>
S_KbdMouse == <<"K","b","d"," ","M","o","u","s","e">>
S_GamingMouse == <<"G","a","m","i","n","g"," ","M","o","u","s","e">>
S_TrackpadPs4 == <<"T","r","a","c","k","p","a","d"," ","P","S","4">>
S_XboxController == <<"X","b","o","x"," ","C","o","n","t","r","o","l","l","e","r">>
S_Thing == <<"T","h","i","n","g">>

ProductArgs ==
    {PyNone, PyStr(<<>>), PyStr(S_UsbKeyboardUpper), PyStr(S_KbdMouse),
     PyStr(S_GamingMouse), PyStr(S_TrackpadPs4), PyStr(S_XboxController), PyStr(S_Thing)}
SubclassArgs == {0, 1, 2}
ProtocolArgs == {0, 1, 2, 3}
VidPidArgs == {<<1133, 50475>>, <<1133, 49271>>, <<1356, 616>>, <<1133, 49948>>}

ClassifyArgs ==
    {[interface_subclass |-> s, interface_protocol |-> p, product |-> pr,
      vid |-> vp[1], pid |-> vp[2]] :
        s \in SubclassArgs, p \in ProtocolArgs, pr \in ProductArgs, vp \in VidPidArgs}

ClassifyHidDevice(device_info) ==
    /\ Running
    /\ call' = [op |-> "_classify_hid_device", device_type |-> "", index |-> 0,
                refresh |-> FALSE, device_info |-> device_info]
    /\ outcome' = "return"
    /\ ret' = [kind |-> "str", v |-> classify_hid_device(device_info)]
    /\ scan' = NoScanLog
    /\ UNCHANGED <<bus, now, device_cache, cache_timeout, device_change_callbacks,
                   device_filters>>

NextClassify == \E device_info \in ClassifyArgs : ClassifyHidDevice(device_info)

SpecClassify == InitOver({}) /\ [][NextClassify]_vars

\* Filtering: filters are set and the bus is rescanned.
FilterPool == {"kbd", "combo", "pad"}

NextFilter ==
    \/ \E av \in VidArgs, bv \in BlockedVidArgs, am \in ManufacturerArgs,
          bm \in BlockedManufacturerArgs : SetDeviceFilter(av, bv, am, bm)
    \/ \E k \in 1..MaxBus : Unplug(k)
    \/ \E refresh \in BOOLEAN : CountKeyboards(refresh)
    \/ GetCompositeDeviceInfo
    \/ ForceRefresh

SpecFilter == InitOver(FilterPool) /\ [][NextFilter]_vars

\* The configuration fetch alone, from devices that announce a wTotalLength
\* and send at most held bytes of their configuration.
FetchTotals == {0, 7, 9, 10, 12, 14, 258, 265}
FetchHeld == (0..MaxHeld) \cup {258, 265, 266}

FetchDevice(total, held, usberr) ==
    [idVendor |-> 1133, idProduct |-> 49948, serial_number |-> Absent,
     manufacturer |-> PyStr(S_Logitech), product |-> PyStr(S_UsbKeyboard),
     usberr |-> usberr, ddlen |-> 18,
     cfg |-> [k \in 1..held |-> IF k <= ConfigHeaderLen THEN ConfigHeader(total, 1)[k]
                                ELSE (k % 200) + 1]]

FetchDevices ==
    {FetchDevice(total, held, FALSE) : total \in FetchTotals, held \in FetchHeld}
    \cup {FetchDevice(9, 9, TRUE)}

\* the state after get_configuration_descriptor(device) ended as r
Fetches(device, r) ==
    /\ Running
    /\ call' = [op |-> "get_configuration_descriptor", device_type |-> "", index |-> 0,
                refresh |-> FALSE, device |-> device]
    /\ outcome' = IF r.status = "ok" THEN "return" ELSE r.status
    /\ ret' = [kind |-> "bytes", v |-> r.buf, requests |-> r.requests]
    /\ scan' = NoScanLog
    /\ UNCHANGED <<bus, now, device_cache, cache_timeout, device_change_callbacks,
                   device_filters>>

GetConfigurationDescriptor(device) ==
    Fetches(device, get_configuration_descriptor(device))

NextFetch == \E device \in FetchDevices : GetConfigurationDescriptor(device)

SpecFetch == InitOver({}) /\ [][NextFetch]_vars

\* The descriptor walks alone, over configurations made of a 9-byte header
\* and up to MaxRecords records: whole ones, short ones and broken ones.
WalkRecords ==
    {InterfaceDesc(0, 1, HID_CLASS, BOOT_SUBCLASS, KEYBOARD_PROTOCOL),
     InterfaceDesc(1, 1, HID_CLASS, BOOT_SUBCLASS, MOUSE_PROTOCOL),
     InterfaceDesc(2, 1, 8, 6, 80),
     HidDesc, EndpointDesc(129), EndpointDesc(2),
     <<2, DESC_INTERFACE>>, <<2, DESC_ENDPOINT>>, <<2, 36>>,
     <<0, 36>>, <<1, 36>>, <<9, 36, 0>>}

RECURSIVE WalkBodies(_)
WalkBodies(n) ==
    IF n = 0 THEN {<<>>}
    ELSE WalkBodies(n - 1) \cup {b \o r : b \in WalkBodies(n - 1), r \in WalkRecords}

\* a device with the attributes of Device["kbd"] that sends header + body
WalkDevice(body) ==
    [idVendor |-> 1133, idProduct |-> 49948, serial_number |-> Absent,
     manufacturer |-> PyStr(S_Logitech), product |-> PyStr(S_UsbKeyboard),
     usberr |-> FALSE, ddlen |-> 18,
     cfg |-> ConfigHeader(ConfigHeaderLen + Len(body), 1) \o body]

WalkDevices == {WalkDevice(body) : body \in WalkBodies(MaxRecords)}

\* the module as imported, with the device the walks are applied to at hand
InitWalk ==
    /\ bus = <<>>
    /\ now = 0
    /\ device_cache = EmptyCache
    /\ cache_timeout = DefaultCacheTimeout
    /\ device_change_callbacks = <<>>
    /\ device_filters = DefaultFilters
    /\ \E device \in WalkDevices :
          call = [op |-> "import", device_type |-> "", index |-> 0,
                  refresh |-> FALSE, device |-> device]
    /\ outcome = "return"
    /\ ret = NoValue
    /\ scan = NoScanLog

\* the state after a walk over the device at hand ended as r with value v
Walks(op, r, v) ==
    /\ Running
    /\ call' = [call EXCEPT !.op = op]
    /\ outcome' = IF r.status = "ok" THEN "return" ELSE r.status
    /\ ret' = [kind |-> "walk", v |-> v, visited |-> r.visited, cursor |-> r.cursor]
    /\ scan' = NoScanLog
    /\ UNCHANGED <<bus, now, device_cache, cache_timeout, device_change_callbacks,
                   device_filters>>

walk_result(op, r) == Walks(op, r, IF op = "_analyze_device" THEN r.hid ELSE r.value)

\* the loop of _analyze_device over the configuration of the device at hand
WalkConfiguration ==
    walk_result("_analyze_device",
                collect_hid_interfaces("kbd", call.device.cfg, 0, <<>>, device_filters))

FindBootMouseEndpoint ==
    walk_result("find_boot_mouse_endpoint", find_boot_mouse_endpoint(call.device))

NextWalk == WalkConfiguration \/ FindBootMouseEndpoint

SpecWalk == InitWalk /\ [][NextWalk]_vars

\* The summary call, on a cache that is Fresh or stale, over devices that
\* answer and one that does not send what it announces.
NextList ==
    \/ Tick
    \/ \E k \in 1..MaxBus : Unplug(k)
    \/ \E refresh \in BOOLEAN : CountKeyboards(refresh)
    \/ ListAllHidDevices

SpecList == InitOver(TTLPool) /\ [][NextList]_vars

\* The connectivity probe, of devices that have left the bus since they were
\* cached, that answer, that answer with too few bytes or that hang the scan.
ConnectPool == {"kbd", "combo", "stub", "short", "zero"}

NextConnect ==
    \/ Tick
    \/ \E k \in 1..MaxBus : Unplug(k)
    \/ \E device_type \in TypeNames, index \in Indexes :
          IsDeviceConnected(device_type, index)
    \/ ForceRefresh

SpecConnect == InitOver(ConnectPool) /\ [][NextConnect]_vars

\* Scans of devices whose string attributes are there, missing or None.
StringsPool == {"kbd", "pad", "anon"}

NextStrings ==
    \/ \E k \in 1..MaxBus : Unplug(k)
    \/ \E refresh \in BOOLEAN : CountKeyboards(refresh)
    \/ \E refresh \in BOOLEAN : CountGamepads(refresh)
    \/ ListAllHidDevices
    \/ ForceRefresh

SpecStrings == InitOver(StringsPool) /\ [][NextStrings]_vars

\* The selection alone, over the candidate lists of one classification: up to
\* MaxCandidates interfaces of a device, boot or not, of every protocol.
Candidate(number, subclass, protocol) ==
    [device |-> "kbd", interface_index |-> number, endpoint_address |-> 129 + number,
     interface_class |-> HID_CLASS, interface_subclass |-> subclass,
     interface_protocol |-> protocol, vid |-> 1133, pid |-> 49948,
     manufacturer |-> PyStr(S_Logitech), product |-> PyStr(S_UsbKeyboard)]

CandidateLists ==
    UNION {{[k \in 1..n |-> Candidate(k - 1, sp[k][1], sp[k][2])] :
               sp \in [1..n -> {0, BOOT_SUBCLASS} \X {0, 1, 2}]} :
           n \in 1..MaxCandidates}

SelectTypes == {"keyboard", "mouse", "gamepad", "unknown"}

\* the module as imported, with the arguments of the selection at hand
InitSelect ==
    /\ bus = <<>>
    /\ now = 0
    /\ device_cache = EmptyCache
    /\ cache_timeout = DefaultCacheTimeout
    /\ device_change_callbacks = <<>>
    /\ device_filters = DefaultFilters
    /\ \E interfaces \in CandidateLists, device_type \in SelectTypes :
          call = [op |-> "import", device_type |-> device_type, index |-> 0,
                  refresh |-> FALSE, interfaces |-> interfaces]
    /\ outcome = "return"
    /\ ret = NoValue
    /\ scan = NoScanLog

SelectBestInterfaceForType ==
    /\ Running
    /\ call' = [call EXCEPT !.op = "_select_best_interface_for_type"]
    /\ outcome' = "return"
    /\ ret' = [kind |-> "interface",
               v |-> select_best_interface_for_type(call.interfaces, call.device_type)]
    /\ scan' = NoScanLog
    /\ UNCHANGED <<bus, now, device_cache, cache_timeout, device_change_callbacks,
                   device_filters>>

NextSelect == SelectBestInterfaceForType

SpecSelect == InitSelect /\ [][NextSelect]_vars

\* Scans of devices with one, two and three HID interfaces.
CompositePool == {"kbd", "combo", "trio", "short"}

NextComposite ==
    \/ \E k \in 1..MaxBus : Unplug(k)
    \/ \E refresh \in BOOLEAN : CountKeyboards(refresh)
    \/ GetCompositeDeviceInfo
    \/ ForceRefresh

SpecComposite == InitOver(CompositePool) /\ [][NextComposite]_vars

\* Scans under vendor-id and manufacturer filters, with entries that name the
\* same vendor id or manufacturer in an allow-list and in a block-list.
DropPool == {"kbd", "combo", "anon"}
S_LogitechUpper == <<"L","O","G","I","T","E","C","H">>
DropVidArgs == {NoSet, SetOf({1133})}
DropBlockedVidArgs == {NoSet, SetOf({1133})}
DropManufacturerArgs == {NoSet, SetOf({S_LogitechUpper})}
DropBlockedManufacturerArgs == {NoSet, SetOf({S_Logitech}), SetOf({S_Acme})}

NextDrop ==
    \/ \E av \in DropVidArgs, bv \in DropBlockedVidArgs, am \in DropManufacturerArgs,
          bm \in DropBlockedManufacturerArgs : SetDeviceFilter(av, bv, am, bm)
    \/ \E k \in 1..MaxBus : Unplug(k)
    \/ \E refresh \in BOOLEAN : CountKeyboards(refresh)
    \/ ForceRefresh

SpecDrop == InitOver(DropPool) /\ [][NextDrop]_vars

\* The configuration calls between scans: the timeout, the callbacks and the
\* vendor-id filters are set while time passes and devices leave.
ConfigPool == {"kbd", "combo"}

NextConfig ==
    \/ Tick
    \/ \E k \in 1..MaxBus : Unplug(k)
    \/ \E t \in TimeoutArgs : SetCacheTimeout(t)
    \/ \E cb \in CallbackIds : RegisterDeviceChangeCallback(cb)
    \/ \E av \in VidArgs, bv \in BlockedVidArgs : SetDeviceFilter(av, bv, NoSet, NoSet)
    \/ \E refresh \in BOOLEAN : CountKeyboards(refresh)
    \/ ForceRefresh

SpecConfig == InitOver(ConfigPool) /\ [][NextConfig]_vars

\* Devices are swapped between refreshes: two keyboards of different product
\* ids and a gamepad come and go, and each forced refresh records the buckets
\* it started from.
SwapPool == {"kbd", "stub", "pad"}

ForceRefreshOver ==
    /\ Running
    /\ call' = [op |-> "force_refresh", device_type |-> "", index |-> 0,
                refresh |-> TRUE, old_cache |-> device_cache]
    /\ device_cache' = force_refresh.cache
    /\ outcome' = force_refresh.outcome
    /\ ret' = force_refresh.ret
    /\ scan' = force_refresh.log
    /\ UNCHANGED <<bus, now, cache_timeout, device_change_callbacks, device_filters>>

NextSwap ==
    \/ \E d \in SwapPool : Plug(d)
    \/ \E k \in 1..MaxBus : Unplug(k)
    \/ RegisterDeviceChangeCallback("cbA")
    \/ \E refresh \in BOOLEAN : CountKeyboards(refresh)
    \/ ForceRefreshOver

SpecSwap == InitOver(SwapPool) /\ [][NextSwap]_vars

\* Refreshes that are cut short: a device that answers its configuration
\* request with fewer bytes than it declares comes and goes while the cache
\* ages.
CutPool == {"kbd", "short"}

NextCut ==
    \/ Tick
    \/ \E d \in CutPool : Plug(d)
    \/ \E k \in 1..MaxBus : Unplug(k)
    \/ \E refresh \in BOOLEAN : CountKeyboards(refresh)
    \/ ForceRefresh

SpecCut == InitOver(CutPool) /\ [][NextCut]_vars

\* ------------------------------------------------------------------ claims
\* calls that begin with _refresh_device_cache()
RefreshIfStaleCalls ==
    {"count_keyboards", "count_mice", "count_gamepads",
     "get_keyboard_info", "get_mouse_info", "get_gamepad_info",
     "get_keyboard_device", "get_mouse_device", "get_gamepad_device",
     "get_composite_device_info"}

\* calls that begin with _refresh_device_cache(force_refresh=True)
ForcedCalls == {"force_refresh", "list_all_hid_devices"}

\* C1: a non-forced query made while the cache is Fresh (a scan has happened,
\* the timeout is > 0 and less than the timeout has passed since last_scan)
\* enumerates nothing, calls no change callback and leaves the buckets, the
\* composite map and last_scan as they were.
C1_FreshQueryLeavesCache ==
    [][ ( /\ call'.op \in RefreshIfStaleCalls
          /\ ~call'.refresh
          /\ call'.index >= 0
          /\ device_cache.last_scan # NoScan
          /\ cache_timeout > 0
          /\ now - device_cache.last_scan[1] < cache_timeout )
        => ( /\ ~scan'.scanned
             /\ scan'.analysed = <<>>
             /\ scan'.notified = <<>>
             /\ outcome' = "return"
             /\ device_cache' = device_cache ) ]_vars

\* a Fresh cache that a rescan would change, queried with a callback registered
C1_Witness ==
    /\ call.op = "count_keyboards"
    /\ ~call.refresh
    /\ outcome = "return"
    /\ ~scan.scanned
    /\ device_cache.last_scan # NoScan
    /\ cache_timeout > 0
    /\ now - device_cache.last_scan[1] < cache_timeout
    /\ Len(device_cache.keyboards) > Len(bus)
    /\ device_change_callbacks # <<>>
    /\ ret.v = Len(device_cache.keyboards)

\* C2: with a cache timeout of 0 every query rescans, and force_refresh() or
\* count_*(refresh=True) rescans however recent the last scan is; after it
\* the cache is Fresh (last_scan is the time of the call).
C2_ZeroTimeoutOrForceRescans ==
    ( /\ call.op \in RefreshIfStaleCalls \cup ForcedCalls
      /\ call.index >= 0
      /\ (call.refresh \/ cache_timeout = 0) )
    => ( /\ scan.scanned
         /\ scan.analysed = bus
         /\ device_cache.last_scan = <<now>> )

\* ---- what the devices of the bus are, read off their descriptors
RaisesUSBError(d) == Device[d].usberr
\* the configuration header announces a wTotalLength the device does not send
SendsOtherLength(d) == Device[d].cfg[3] + 256 * Device[d].cfg[4] # Len(Device[d].cfg)
\* following the declared lengths from offset i meets a declared length of 0
RECURSIVE DeclaresZeroLength(_, _)
DeclaresZeroLength(cfg, i) ==
    /\ i < Len(cfg)
    /\ \/ cfg[i + 1] = 0
       \/ DeclaresZeroLength(cfg, i + cfg[i + 1])
Malformed(d) == DeclaresZeroLength(Device[d].cfg, 0)
SendsOtherLengthOnBus == \E k \in 1..Len(bus) : SendsOtherLength(bus[k])
MalformedOnBus == \E k \in 1..Len(bus) : Malformed(bus[k])

AllBuckets == {"keyboards", "mice", "gamepads"}
\* device d has an entry in the cache
Cached(d) ==
    \/ \E b \in AllBuckets : \E k \in 1..Len(device_cache[b]) : device_cache[b][k].device = d
    \/ \E key \in DOMAIN device_cache.composite_devices :
          device_cache.composite_devices[key].device = d
\* the buckets the readable devices of the bus belong in
ExpectedBuckets(d) ==
    CASE d = "kbd" -> {"keyboards"}
      [] d = "combo" -> {"keyboards", "mice"}
      [] d = "pad" -> {"gamepads"}
      [] OTHER -> {}
InBucket(d, b) == \E k \in 1..Len(device_cache[b]) : device_cache[b][k].device = d

Abs(n) == IF n < 0 THEN 0 - n ELSE n
CallsOf(log, callback, bucket, action) ==
    Cardinality({k \in 1..Len(log) : /\ log[k].callback = callback
                                     /\ log[k].bucket = bucket
                                     /\ log[k].action = action})

\* C3: after a refresh, for each classification whose bucket size changed by
\* d, every registered change callback is called exactly |d| times for that
\* classification, with 'added' when the count grew and 'removed' when it
\* shrank.
C3_OneCallPerUnitOfDelta ==
    [][ (scan'.scanned /\ outcome' = "return")
        => \A b \in AllBuckets : \A k \in 1..Len(device_change_callbacks) :
             LET d == Len(device_cache'[b]) - Len(device_cache[b])
                 cb == device_change_callbacks[k]
             IN /\ CallsOf(scan'.notified, cb, b, "added") = (IF d > 0 THEN d ELSE 0)
                /\ CallsOf(scan'.notified, cb, b, "removed") = (IF d < 0 THEN 0 - d ELSE 0)
      ]_vars

C5_LengthErrorIsDeviceScoped ==
    (scan.scanned /\ SendsOtherLengthOnBus /\ ~MalformedOnBus)
    => /\ outcome = "return"
       /\ scan.analysed = bus
       /\ device_cache.last_scan = <<now>>
       /\ \A k \in 1..Len(bus) : SendsOtherLength(bus[k]) => ~Cached(bus[k])

\* C6: a refresh always terminates: a descriptor of declared length 0 ends
\* the walk of its blob, excludes that device and leaves the scan of the
\* other devices running.
C6_RefreshTerminates ==
    (scan.scanned /\ MalformedOnBus /\ ~SendsOtherLengthOnBus)
    => /\ outcome = "return"
       /\ scan.analysed = bus
       /\ \A k \in 1..Len(bus) : Malformed(bus[k]) => ~Cached(bus[k])

\* the calls made on a bus whose devices all let a scan run to its end
ScanRunsThrough == ~MalformedOnBus /\ ~SendsOtherLengthOnBus

\* C7: for a device with a boot keyboard and a boot mouse interface, a
\* refresh records a composite entry listing both classifications, and
\* get_companion_interfaces('keyboard', 0) returns a mapping with 'mouse'
\* whose interface_index and endpoint_address are the mouse interface's.
C7_KeyboardHasMouseCompanion ==
    ( /\ call.op = "get_companion_interfaces"
      /\ call.device_type = "keyboard"
      /\ call.index = 0
      /\ outcome = "return"
      /\ ScanRunsThrough
      /\ Len(device_cache.keyboards) > 0
      /\ device_cache.keyboards[1].device = "combo" )
    => /\ \E key \in DOMAIN device_cache.composite_devices :
            /\ device_cache.composite_devices[key].device = "combo"
            /\ device_cache.composite_devices[key].types = <<"keyboard", "mouse">>
       /\ "mouse" \in DOMAIN ret.v
       /\ ret.v["mouse"].interface_index = 1
       /\ ret.v["mouse"].endpoint_address = 130

\* C8: for a cached device whose HID interfaces span two or more
\* classifications is_composite_device(type, index) returns (True, its other
\* classifications); for a device of one classification it returns
\* (False, []).
C8_CompositeIsRecognised ==
    ( /\ call.op = "is_composite_device"
      /\ IsTypeName(call.device_type)
      /\ call.index >= 0
      /\ outcome = "return"
      /\ ScanRunsThrough
      /\ call.index < Len(device_cache[BucketOf(call.device_type)]) )
    => LET d == device_cache[BucketOf(call.device_type)][call.index + 1].device
           keys == {key \in DOMAIN device_cache.composite_devices :
                       device_cache.composite_devices[key].device = d}
           IsOther(t) == t # call.device_type
       IN IF keys # {}
          THEN \A key \in keys :
                 /\ ret.v.is_composite
                 /\ ret.v.other_types =
                       SelectSeq(device_cache.composite_devices[key].types, IsOther)
          ELSE ret.v = [is_composite |-> FALSE, other_types |-> <<>>]

IndexTakingCalls ==
    {"get_info", "get_keyboard_info", "get_mouse_info", "get_gamepad_info",
     "get_keyboard_device", "get_mouse_device", "get_gamepad_device",
     "is_composite_device", "get_companion_interfaces", "is_device_connected"}

\* C9: every index-taking query called with index = -1 raises an
\* out-of-range error to its caller, for each of the three classifications.
C9_NegativeIndexRaises ==
    ( /\ call.op \in IndexTakingCalls
      /\ IsTypeName(call.device_type)
      /\ call.index = -1 )
    => outcome = "IndexError"

TypeTakingCalls ==
    {"get_info", "is_composite_device", "get_companion_interfaces",
     "is_device_connected"}

\* C10: every query that takes a classification name, called with a name
\* other than 'keyboard', 'mouse' or 'gamepad', raises an invalid-argument
\* error to its caller.
C10_UnknownTypeRaises ==
    ( /\ call.op \in TypeTakingCalls
      /\ ~IsTypeName(call.device_type) )
    => outcome = "ValueError"

\* the buckets and the composite map of a cache
Contents(cache) ==
    <<cache.keyboards, cache.mice, cache.gamepads, cache.composite_devices>>

\* C11: a refresh that follows a completed refresh with the same devices in
\* the same order and the same filters leaves buckets and a composite map
\* identical to those of the first, and calls no change callback.
C11_SecondRefreshChangesNothing ==
    [][ ( /\ scan.scanned /\ outcome = "return"
          /\ scan'.scanned /\ outcome' = "return"
          /\ bus' = bus /\ device_filters' = device_filters )
        => ( /\ Contents(device_cache') = Contents(device_cache)
             /\ scan'.notified = <<>> ) ]_vars

\* a rescan of a bus with a composite device, a callback registered, that
\* found the counts as the scan before it had left them
C11_Witness ==
    /\ call.op = "force_refresh"
    /\ outcome = "return"
    /\ scan.scanned
    /\ device_change_callbacks # <<>>
    /\ Len(device_cache.keyboards) > 0
    /\ Len(device_cache.mice) > 0
    /\ device_cache.composite_devices # <<>>
    /\ scan.notified = <<>>

\* the invocations of callback for bucket in a notification log
NotifiedFor(log, callback, bucket) ==
    {k \in 1..Len(log) : log[k].callback = callback /\ log[k].bucket = bucket}

\* C12: when a change callback raises during the notification of a refresh,
\* every registered callback is still called for every bucket whose count
\* changed, the call returns to its caller, and the buckets, the composite
\* map and last_scan are those the scan built.
C12_RaisingCallbackIsContained ==
    [][ ( /\ scan'.scanned
          /\ \E k \in 1..Len(scan'.notified) : scan'.notified[k].raised )
        => ( /\ outcome' = "return"
             /\ device_cache'.last_scan = <<now'>>
             /\ Contents(device_cache') =
                   Contents(scan_devices(cleared_cache(device_cache), device_filters,
                                         bus, 1, <<>>, <<>>).cache)
             /\ \A b \in AllBuckets :
                   Len(device_cache'[b]) # Len(device_cache[b])
                   => \A j \in 1..Len(device_change_callbacks) :
                         NotifiedFor(scan'.notified, device_change_callbacks[j], b) # {} )
      ]_vars

\* a notification in which the first callback raised for the keyboards, the
\* second was called after it, and both were called for the mice afterwards
C12_Witness ==
    /\ outcome = "return"
    /\ scan.scanned
    /\ device_change_callbacks = <<"cbB", "cbA">>
    /\ Len(scan.notified) = 4
    /\ scan.notified[1].callback = "cbB" /\ scan.notified[1].raised
    /\ scan.notified[1].bucket = "keyboards"
    /\ scan.notified[2].callback = "cbA" /\ scan.notified[2].bucket = "keyboards"
    /\ scan.notified[3].callback = "cbB" /\ scan.notified[3].bucket = "mice"
    /\ scan.notified[4].callback = "cbA" /\ scan.notified[4].bucket = "mice"
    /\ device_cache.last_scan = <<now>>
    /\ Len(device_cache.keyboards) = 1
    /\ Len(device_cache.mice) = 1

\* the (vendor id, product id, serial number) of a cache entry
TripleOf(entry) == <<entry.vid, entry.pid, SerialOrNone(entry.device)>>

\* C13: in every cache state no bucket holds two entries with the same
\* (vendor id, product id, serial number), also when the enumeration yields
\* the same device twice in one pass.
C13_NoDuplicateInBucket ==
    \A b \in AllBuckets :
       \A i \in 1..Len(device_cache[b]) : \A j \in 1..Len(device_cache[b]) :
          i # j => TripleOf(device_cache[b][i]) # TripleOf(device_cache[b][j])

\* a pass that met the composite device twice and cached it once per bucket
C13_Witness ==
    /\ bus = <<"combo", "combo">>
    /\ scan.scanned
    /\ scan.analysed = bus
    /\ outcome = "return"
    /\ Len(device_cache.keyboards) = 1
    /\ Len(device_cache.mice) = 1

\* the product string of an interface info, lower-cased; None and '' are ''
LoweredProduct(info) ==
    IF info.product.tag = "str" THEN Lower(info.product.val) ELSE <<>>

Mentions(info, keywords) == \E kw \in keywords : Contains(LoweredProduct(info), kw)

\* the decision list: conditions in order, each with its classification
DecisionList(info) ==
    << <<info.interface_subclass = 1 /\ info.interface_protocol = 1, "keyboard">>,
       <<info.interface_subclass = 1 /\ info.interface_protocol = 2, "mouse">>,
       <<Mentions(info, {<<"k","e","y","b","o","a","r","d">>, <<"k","b","d">>,
                         <<"k","e","y","p","a","d">>}), "keyboard">>,
       <<Mentions(info, {<<"m","o","u","s","e">>, <<"p","o","i","n","t","e","r">>,
                         <<"t","r","a","c","k","b","a","l","l">>,
                         <<"t","o","u","c","h","p","a","d">>,
                         <<"t","r","a","c","k","p","a","d">>}), "mouse">>,
       <<Mentions(info, {<<"g","a","m","e","p","a","d">>,
                         <<"c","o","n","t","r","o","l","l","e","r">>,
                         <<"j","o","y","s","t","i","c","k">>, <<"x","b","o","x">>,
                         <<"p","l","a","y","s","t","a","t","i","o","n">>,
                         <<"p","s","3">>, <<"p","s","4">>, <<"p","s","5">>}), "gamepad">>,
       <<<<info.vid, info.pid>> \in known_keyboards, "keyboard">>,
       <<<<info.vid, info.pid>> \in known_mice, "mouse">>,
       <<<<info.vid, info.pid>> \in known_gamepads, "gamepad">>,
       <<TRUE, "gamepad">> >>

FirstMatch(rules) ==
    rules[CHOOSE k \in 1..Len(rules) : rules[k][1] /\ \A j \in 1..(k - 1) : ~rules[j][1]][2]

EntriesOf(b, d) == {k \in 1..Len(device_cache[b]) : device_cache[b][k].device = d}

\* C15: a device whose configuration holds one HID interface of subclass 1
\* and protocol 1 followed by an input endpoint 0x81 (the fixture "kbd",
\* interface number 0) has, once a scan has analysed it, exactly one entry in
\* the keyboard bucket and none in the mouse and gamepad buckets, and with it
\* first on the bus get_keyboard_info(0) returns (0, 0x81).
C15_BootKeyboardIsCached ==
    /\ ( /\ scan.scanned
         /\ \E k \in 1..Len(scan.analysed) : scan.analysed[k] = "kbd" )
       => /\ Cardinality(EntriesOf("keyboards", "kbd")) = 1
          /\ EntriesOf("mice", "kbd") = {}
          /\ EntriesOf("gamepads", "kbd") = {}
    /\ ( /\ call.op = "get_keyboard_info" /\ call.index = 0
         /\ outcome = "return"
         /\ bus # <<>> /\ bus[1] = "kbd" )
       => ret = [kind |-> "pair", v |-> <<0, 129>>]

\* get_keyboard_info(0) scanned a bus with the keyboard alone
C15_Witness ==
    /\ call.op = "get_keyboard_info"
    /\ call.index = 0
    /\ outcome = "return"
    /\ scan.scanned
    /\ bus = <<"kbd">>
    /\ Len(device_cache.keyboards) = 1
    /\ device_cache.keyboards[1].interface_index = 0
    /\ device_cache.keyboards[1].endpoint_address = 129
    /\ device_cache.keyboards[1].interface_subclass = 1
    /\ device_cache.keyboards[1].interface_protocol = 1
    /\ ret.v = <<0, 129>>

\* the vendor ids of everything the cache holds
CachedVids ==
    {device_cache[b][k].vid : <<b, k>> \in
        {<<b, k>> \in AllBuckets \X (1..MaxBus + 1) : k <= Len(device_cache[b])}}
    \cup {Device[device_cache.composite_devices[key].device].idVendor :
             key \in DOMAIN device_cache.composite_devices}

\* C16: after a refresh made while a non-empty vendor-id allow-list is
\* active, no cached entry has a vendor id outside the list; with
\* allowed_vids = {0x046D} and only devices of vendor id 0x1234 on the bus,
\* the three buckets and the composite map are empty.
C16_AllowListKeepsOthersOut ==
    ( /\ scan.scanned /\ outcome = "return"
      /\ Truthy(device_filters.allowed_vids) )
    => /\ CachedVids \subseteq device_filters.allowed_vids.set
       /\ ( /\ device_filters.allowed_vids.set = {1133}
            /\ \A k \in 1..Len(bus) : Device[bus[k]].idVendor = 4660 )
          => Contents(device_cache) = <<<<>>, <<>>, <<>>, <<>>>>

\* a forced refresh under allowed_vids = {0x046D} of a bus that holds only
\* the composite device of vendor id 0x1234
C16_Witness ==
    /\ call.op = "force_refresh"
    /\ outcome = "return"
    /\ scan.scanned
    /\ bus = <<"combo">>
    /\ scan.analysed = bus
    /\ device_filters.allowed_vids = SetOf({1133})
    /\ Contents(device_cache) = <<<<>>, <<>>, <<>>, <<>>>>
    /\ device_cache.last_scan = <<now>>

\* the cache contents a scan of the bus builds when every vendor id is allowed
UnfilteredByVid ==
    Contents(scan_devices(cleared_cache(device_cache),
                          [device_filters EXCEPT !.allowed_vids = NoSet],
                          bus, 1, <<>>, <<>>).cache)

\* C17: set_device_filter(allowed_vids=None) means "allow all vendor ids":
\* the forced refresh that follows it caches what a scan without a vendor-id
\* allow-list caches, so the devices an earlier allow-list kept out are back.
C17_NoneAllowsAllVids ==
    [][ ( /\ call.op = "set_device_filter" /\ call.allowed_vids.none
          /\ call'.op = "force_refresh" /\ outcome' = "return" )
        => Contents(device_cache') = UnfilteredByVid ]_vars

\* the bytes a device transfers when asked for n bytes of its configuration
Transferred(device, n) == Min(n, Len(device.cfg))

\* wTotalLength as the first nine bytes of a configuration announce it
Announced(device) == device.cfg[3] + 256 * device.cfg[4]

\* C18: get_configuration_descriptor raises the length error when the
\* header transfer brings a byte count other than 9, and when the full
\* transfer brings a byte count other than wTotalLength; what it returns is
\* the configuration's first wTotalLength bytes, neither cut nor extended.
C18_LengthErrorOnEitherTransfer ==
    (call.op = "get_configuration_descriptor" /\ ~call.device.usberr)
    => IF Transferred(call.device, 9) # 9
       THEN outcome = "ValueError"
       ELSE IF Transferred(call.device, Announced(call.device)) # Announced(call.device)
            THEN outcome = "ValueError"
            ELSE /\ outcome = "return"
                 /\ ret.v = SubSeq(call.device.cfg, 1, Announced(call.device))

\* a device that sends five bytes for the nine asked for
C18_Witness ==
    /\ call.op = "get_configuration_descriptor"
    /\ ~call.device.usberr
    /\ Len(call.device.cfg) = 5
    /\ ret.requests = <<9>>
    /\ outcome = "ValueError"

\* C19: get_configuration_descriptor asks for exactly 9 bytes first and,
\* when it has them, for exactly wTotalLength = header[2] + 256 * header[3]
\* bytes second, and for nothing else; on success the buffer it returns has
\* length wTotalLength.
C19_TwoRequestsNineThenTotal ==
    (call.op = "get_configuration_descriptor" /\ ~call.device.usberr)
    => /\ ret.requests # <<>> /\ ret.requests[1] = 9
       /\ Transferred(call.device, 9) = 9
          => /\ ret.requests = <<9, Announced(call.device)>>
             /\ Announced(call.device) \in 0..65535
       /\ outcome = "return" => Len(ret.v) = Announced(call.device)

\* a configuration of 258 bytes (0x0102), fetched whole
C19_Witness ==
    /\ call.op = "get_configuration_descriptor"
    /\ Len(call.device.cfg) = 266
    /\ call.device.cfg[3] = 2 /\ call.device.cfg[4] = 1
    /\ outcome = "return"
    /\ ret.requests = <<9, 258>>
    /\ Len(ret.v) = 258

\* the lengths from offset i tile cfg exactly, each at least 2
RECURSIVE Tiles(_, _)
Tiles(cfg, i) ==
    \/ i = Len(cfg)
    \/ /\ i + 1 < Len(cfg)
       /\ At(cfg, i) >= 2
       /\ i + At(cfg, i) <= Len(cfg)
       /\ Tiles(cfg, i + At(cfg, i))

WellFormed(cfg) == Tiles(cfg, 0)

\* the offsets of the records of a well-formed cfg from offset i on
RECURSIVE RecordStarts(_, _)
RecordStarts(cfg, i) ==
    IF i >= Len(cfg) THEN <<>> ELSE <<i>> \o RecordStarts(cfg, i + At(cfg, i))

\* the sum of the lengths read at the offsets in visited
RECURSIVE Consumed(_, _)
Consumed(cfg, visited) ==
    IF visited = <<>> THEN 0
    ELSE At(cfg, visited[1]) + Consumed(cfg, Tail(visited))

WalkedWholeBlob ==
    /\ ret.visited = RecordStarts(call.device.cfg, 0)
    /\ ret.cursor = Len(call.device.cfg)
    /\ Consumed(call.device.cfg, ret.visited) = Len(call.device.cfg)

\* C20: for every well-formed configuration blob (each descriptor length at
\* least 2, the lengths tiling the blob exactly) the walk of _analyze_device,
\* and the walk of find_boot_mouse_endpoint when it finds no boot mouse,
\* reads consecutive records and the lengths it consumes sum to the blob
\* length: the cursor ends at the end of the blob, no byte skipped.
C20_WalkConsumesWholeBlob ==
    /\ (call.op = "_analyze_device" /\ WellFormed(call.device.cfg))
          => WalkedWholeBlob
    /\ (/\ call.op = "find_boot_mouse_endpoint"
        /\ WellFormed(call.device.cfg)
        /\ ~(outcome = "return" /\ ret.v # <<>>))
          => WalkedWholeBlob

\* the record at offset i declares a length below 2 or one that overruns cfg
BadRecordAt(cfg, i) == At(cfg, i) < 2 \/ i + At(cfg, i) > Len(cfg)

\* the offsets in visited up to and including the first bad record
FirstBad(cfg, visited) ==
    CHOOSE k \in 1..Len(visited) :
        /\ BadRecordAt(cfg, visited[k])
        /\ \A j \in 1..(k - 1) : ~BadRecordAt(cfg, visited[j])

MeetsBadRecord ==
    /\ call.op \in {"_analyze_device", "find_boot_mouse_endpoint"}
    /\ \E k \in 1..Len(ret.visited) : BadRecordAt(call.device.cfg, ret.visited[k])

\* C21: a descriptor walk (of _analyze_device or find_boot_mouse_endpoint)
\* that meets a record whose declared length is below 2 or overruns the blob
\* ends with an error, and that record is the last one it reads.
C21_BadRecordEndsWalkWithError ==
    MeetsBadRecord =>
        /\ outcome \notin {"return", "hang"}
        /\ FirstBad(call.device.cfg, ret.visited) = Len(ret.visited)

\* the snapshot lists bucket b of the cache, entry for entry
ListsBucket(summary, bucket) ==
    /\ summary.count = Len(summary.devices)
    /\ summary.count = Len(bucket)
    /\ \A k \in 1..Len(summary.devices) :
          /\ summary.devices[k].index = k - 1
          /\ summary.devices[k].vid = bucket[k].vid
          /\ summary.devices[k].pid = bucket[k].pid
          /\ summary.devices[k].interface_index = bucket[k].interface_index
          /\ summary.devices[k].endpoint_address = bucket[k].endpoint_address

\* C22: list_all_hid_devices always scans the whole bus anew, also when the
\* cache is Fresh, and returns a snapshot of that scan: per classification
\* count is the number of listed devices and the index values are 0..count-1
\* in bucket order.
C22_ListAllAlwaysRescans ==
    call.op = "list_all_hid_devices" =>
        /\ scan.scanned
        /\ scan.analysed = bus
        /\ outcome = "return"
        /\ ret.kind = "summary"
        /\ ListsBucket(ret.v.keyboards, device_cache.keyboards)
        /\ ListsBucket(ret.v.mice, device_cache.mice)
        /\ ListsBucket(ret.v.gamepads, device_cache.gamepads)

\* the device cached at (device_type, index), as a set of at most one id
CachedAt(device_type, index) ==
    IF /\ IsTypeName(device_type)
       /\ index >= 0
       /\ index < Len(device_cache[BucketOf(device_type)])
    THEN {device_cache[BucketOf(device_type)][index + 1].device}
    ELSE {}

\* d is on the bus and answers GET_DESCRIPTOR(DEVICE) with exactly 18 bytes
Answers18(d) ==
    /\ \E k \in 1..Len(bus) : bus[k] = d
    /\ ~Device[d].usberr
    /\ Device[d].ddlen = 18

\* C23: is_device_connected, when it ends, never ends with an exception; it
\* returns True only if (type, index) names a cache entry whose device
\* answers a device-descriptor fetch with exactly 18 bytes, so a missing
\* entry, a transport failure or a reply of another length gives False; and
\* when the cache was Fresh (no scan was made) it returns True for every
\* such entry.
C23_ConnectedNeverRaises ==
    (call.op = "is_device_connected" /\ outcome # "hang") =>
        /\ outcome = "return"
        /\ ret.kind = "bool"
        /\ ret.v => \E d \in CachedAt(call.device_type, call.index) : Answers18(d)
        /\ ~scan.scanned =>
              ret.v = (\E d \in CachedAt(call.device_type, call.index) : Answers18(d))

\* a cached keyboard that has left the bus is reported as not connected
C23_Witness ==
    /\ call.op = "is_device_connected"
    /\ outcome = "return"
    /\ ret.v = FALSE
    /\ CachedAt(call.device_type, call.index) = {"kbd"}
    /\ bus = <<>>

\* a cached keyboard that answers with 8 bytes is reported as not connected
C23_WitnessShortReply ==
    /\ call.op = "is_device_connected"
    /\ outcome = "return"
    /\ ret.v = FALSE
    /\ CachedAt(call.device_type, call.index) = {"stub"}
    /\ bus = <<"stub">>

InfoCalls == {"get_keyboard_info", "get_mouse_info", "get_gamepad_info"}
DeviceCalls == {"get_keyboard_device", "get_mouse_device", "get_gamepad_device"}

\* what a lookup at (device_type, index) in the cache returns
FoundAt(kind, device_type, index) ==
    LET bucket == device_cache[BucketOf(device_type)]
    IN IF index < Len(bucket)
       THEN IF kind = "pair"
            THEN [kind |-> "pair",
                  v |-> <<bucket[index + 1].interface_index,
                          bucket[index + 1].endpoint_address>>]
            ELSE [kind |-> "device", v |-> bucket[index + 1].device]
       ELSE IF kind = "pair" THEN [kind |-> "none_pair", v |-> <<>>] ELSE NoValue

\* C24: for index >= 0, get_*_info(index) returns the (interface_index,
\* endpoint_address) of the bucket's entry at that position when index < count
\* and (None, None) when index >= count, and get_*_device(index) the entry's
\* device or None; neither raises an out-of-range error for such an index
\* (the only exception they can end with is the one that ended their scan).
C24_NonNegativeIndexLooksUp ==
    ( /\ call.op \in InfoCalls \cup DeviceCalls
      /\ call.index >= 0
      /\ outcome # "hang" )
    => /\ outcome # "IndexError"
       /\ outcome # "return" => (scan.scanned /\ outcome = "ValueError")
       /\ outcome = "return" =>
             ret = FoundAt(IF call.op \in InfoCalls THEN "pair" ELSE "device",
                           call.device_type, call.index)

\* get_keyboard_info(1) with one keyboard cached returns (None, None)
C24_Witness ==
    /\ call.op = "get_keyboard_info"
    /\ call.index = 1
    /\ Len(device_cache.keyboards) = 1
    /\ outcome = "return"
    /\ ret.kind = "none_pair"

\* get_mouse_device(0) with a mouse cached returns its device
C24_WitnessFound ==
    /\ call.op = "get_mouse_device"
    /\ call.index = 0
    /\ Len(device_cache.mice) = 1
    /\ outcome = "return"
    /\ ret = [kind |-> "device", v |-> "combo"]

\* d has an entry in some bucket of the cache
IsCached(d) ==
    \E b \in {"keyboards", "mice", "gamepads"} :
        \E k \in 1..Len(device_cache[b]) : device_cache[b][k].device = d

\* one of d's manufacturer, product and serial-number strings is absent
LacksAString(d) ==
    \E v \in {Device[d].manufacturer, Device[d].product, Device[d].serial_number} :
        v \in {Absent, PyNone}

\* C25: a device with an absent manufacturer, product or serial-number string
\* (attribute missing or None) is analysed, filtered and classified like any
\* other: after a completed scan under the default filters, each such device
\* on the bus that has a HID interface with an IN endpoint has a cache entry.
C25_AbsentStringsAreNoError ==
    ( /\ scan.scanned
      /\ outcome = "return"
      /\ device_filters = DefaultFilters )
    => \A k \in 1..Len(bus) : LacksAString(bus[k]) => IsCached(bus[k])

\* C26: the device_type a change callback is called with is one of the names
\* the query API accepts ('keyboard', 'mouse', 'gamepad'), for changes in each
\* of the three buckets.
C26_CallbackTypeIsQueryName ==
    \A k \in 1..Len(scan.notified) : IsTypeName(scan.notified[k].device_type)

\* the devices that have an entry in a bucket or in the composite map
CachedDevices ==
    UNION {{device_cache[b][k].device : k \in 1..Len(device_cache[b])} :
              b \in {"keyboards", "mice", "gamepads"}}
    \cup {device_cache.composite_devices[key].device :
            key \in DOMAIN device_cache.composite_devices}

\* C27: every refresh is a full rebuild: after a refresh that completes, the
\* buckets and the composite map hold only entries of devices that its
\* enumeration reported; no entry of a device that is no longer enumerated
\* survives from the previous snapshot.
C27_RefreshIsFullRebuild ==
    (scan.scanned /\ outcome = "return") =>
        \A d \in CachedDevices : \E k \in 1..Len(bus) : bus[k] = d

\* a refresh after the only device, a keyboard and mouse combo, has left:
\* the callback is told of the removals and nothing is left in the cache
C27_Witness ==
    /\ scan.scanned
    /\ outcome = "return"
    /\ bus = <<>>
    /\ Len(scan.notified) = 2
    /\ scan.notified[1].action = "removed"
    /\ scan.notified[2].action = "removed"
    /\ CachedDevices = {}

\* ---- a configuration read record by record (for well-formed cfg)
RecordIs(cfg, o, type) == At(cfg, o + 1) = type

\* every interface record holds its 8 leading bytes, every endpoint record 3
WholeRecords(cfg, starts) ==
    \A k \in 1..Len(starts) :
        /\ RecordIs(cfg, starts[k], DESC_INTERFACE) => At(cfg, starts[k]) >= 8
        /\ RecordIs(cfg, starts[k], DESC_ENDPOINT) => At(cfg, starts[k]) >= 3

IsBootMouseInterface(cfg, o) ==
    /\ RecordIs(cfg, o, DESC_INTERFACE)
    /\ At(cfg, o + 5) = 3
    /\ At(cfg, o + 6) = 1
    /\ At(cfg, o + 7) = 2

IsInEndpoint(cfg, o) == RecordIs(cfg, o, DESC_ENDPOINT) /\ At(cfg, o + 2) >= 128

\* record j is the interface that record k belongs to: the last interface
\* record before k
OwnerOf(cfg, starts, j, k) ==
    /\ j < k
    /\ RecordIs(cfg, starts[j], DESC_INTERFACE)
    /\ \A m \in (j + 1)..(k - 1) : ~RecordIs(cfg, starts[m], DESC_INTERFACE)

\* the IN endpoint records that belong to a boot mouse interface
MouseEndpoints(cfg, starts) ==
    {k \in 1..Len(starts) :
        /\ IsInEndpoint(cfg, starts[k])
        /\ \E j \in 1..Len(starts) :
              OwnerOf(cfg, starts, j, k) /\ IsBootMouseInterface(cfg, starts[j])}

FirstOf(S) == CHOOSE k \in S : \A m \in S : k <= m

ExpectedBootMouse(cfg, starts) ==
    IF MouseEndpoints(cfg, starts) = {} THEN <<>>
    ELSE LET k == FirstOf(MouseEndpoints(cfg, starts))
             j == CHOOSE j \in 1..Len(starts) : OwnerOf(cfg, starts, j, k)
         IN <<At(cfg, starts[j] + 2), At(cfg, starts[k] + 2)>>

\* C28: over a well-formed configuration with whole interface and endpoint
\* records, find_boot_mouse_endpoint returns (interface number, endpoint
\* address) of the first IN endpoint that belongs to a HID boot mouse
\* interface (class 3, subclass 1, protocol 2), i.e. follows it before any
\* other interface descriptor, and (None, None) when there is none; an IN
\* endpoint of another interface is never returned.
C28_FirstBootMouseInEndpoint ==
    ( /\ call.op = "find_boot_mouse_endpoint"
      /\ WellFormed(call.device.cfg)
      /\ WholeRecords(call.device.cfg, RecordStarts(call.device.cfg, 0)) )
    => /\ outcome = "return"
       /\ ret.v = ExpectedBootMouse(call.device.cfg, RecordStarts(call.device.cfg, 0))

\* a boot mouse interface with an OUT endpoint and then an IN endpoint
C28_Witness ==
    /\ call.op = "find_boot_mouse_endpoint"
    /\ call.device.cfg = ConfigHeader(32, 1)
                         \o InterfaceDesc(1, 1, HID_CLASS, BOOT_SUBCLASS, MOUSE_PROTOCOL)
                         \o EndpointDesc(2) \o EndpointDesc(129)
    /\ outcome = "return"
    /\ ret.v = <<1, 129>>

\* a keyboard interface between the boot mouse interface and the IN endpoint
C28_WitnessOtherInterface ==
    /\ call.op = "find_boot_mouse_endpoint"
    /\ call.device.cfg = ConfigHeader(34, 1)
                         \o InterfaceDesc(1, 1, HID_CLASS, BOOT_SUBCLASS, MOUSE_PROTOCOL)
                         \o InterfaceDesc(0, 1, HID_CLASS, BOOT_SUBCLASS, KEYBOARD_PROTOCOL)
                         \o EndpointDesc(129)
    /\ outcome = "return"
    /\ ret.v = <<>>

\* the IN endpoint records that belong to interface record j
InEndpointsOf(cfg, starts, j) ==
    {k \in 1..Len(starts) : IsInEndpoint(cfg, starts[k]) /\ OwnerOf(cfg, starts, j, k)}

IsHidInterface(cfg, o) == RecordIs(cfg, o, DESC_INTERFACE) /\ At(cfg, o + 5) = 3

\* (interface number, endpoint address) of each HID interface record from j
\* on that owns an IN endpoint, with the first such endpoint
RECURSIVE ExpectedInterfaces(_, _, _)
ExpectedInterfaces(cfg, starts, j) ==
    IF j > Len(starts) THEN <<>>
    ELSE (IF /\ IsHidInterface(cfg, starts[j])
             /\ InEndpointsOf(cfg, starts, j) # {}
          THEN << <<At(cfg, starts[j] + 2),
                    At(cfg, starts[FirstOf(InEndpointsOf(cfg, starts, j))] + 2)>> >>
          ELSE <<>>)
         \o ExpectedInterfaces(cfg, starts, j + 1)

RecordedInterfaces(hid) ==
    [k \in 1..Len(hid) |-> <<hid[k].interface_index, hid[k].endpoint_address>>]

\* C29: over a well-formed configuration with whole interface and endpoint
\* records, the endpoint _analyze_device records for a HID interface is the
\* first endpoint with bit 7 (IN) set after that interface's descriptor and
\* before the next interface descriptor or the end of the blob; a HID
\* interface without one is not recorded, and never with an endpoint of a
\* later interface.
C29_EndpointBelongsToItsInterface ==
    ( /\ call.op = "_analyze_device"
      /\ WellFormed(call.device.cfg)
      /\ WholeRecords(call.device.cfg, RecordStarts(call.device.cfg, 0)) )
    => /\ outcome = "return"
       /\ RecordedInterfaces(ret.v)
             = ExpectedInterfaces(call.device.cfg, RecordStarts(call.device.cfg, 0), 1)

\* a keyboard interface without endpoint, then a mouse interface with one
C29_Witness ==
    /\ call.op = "_analyze_device"
    /\ call.device.cfg = ConfigHeader(34, 1)
                         \o InterfaceDesc(0, 1, HID_CLASS, BOOT_SUBCLASS, KEYBOARD_PROTOCOL)
                         \o InterfaceDesc(1, 1, HID_CLASS, BOOT_SUBCLASS, MOUSE_PROTOCOL)
                         \o EndpointDesc(129)
    /\ outcome = "return"
    /\ RecordedInterfaces(ret.v) = << <<1, 129>> >>

\* an OUT endpoint before the IN endpoint of the same interface
C29_WitnessFirstIn ==
    /\ call.op = "_analyze_device"
    /\ call.device.cfg = ConfigHeader(32, 1)
                         \o InterfaceDesc(0, 1, HID_CLASS, BOOT_SUBCLASS, KEYBOARD_PROTOCOL)
                         \o EndpointDesc(2) \o EndpointDesc(129)
    /\ outcome = "return"
    /\ RecordedInterfaces(ret.v) = << <<0, 129>> >>

\* the positions of the boot-subclass candidates, and of those among them
\* whose protocol is the one expected for device_type
BootPositions(interfaces) ==
    {k \in 1..Len(interfaces) : interfaces[k].interface_subclass = 1}

MatchingPositions(interfaces, device_type) ==
    {k \in BootPositions(interfaces) :
        interfaces[k].interface_protocol =
            (IF device_type = "keyboard" THEN 1 ELSE IF device_type = "mouse" THEN 2 ELSE 0)}

PreferredPosition(interfaces, device_type) ==
    IF MatchingPositions(interfaces, device_type) # {}
    THEN FirstOf(MatchingPositions(interfaces, device_type))
    ELSE IF BootPositions(interfaces) # {} THEN FirstOf(BootPositions(interfaces))
    ELSE 1

\* C30: for a non-empty candidate list _select_best_interface_for_type
\* returns the first boot-subclass candidate whose protocol is the one
\* expected for the classification (keyboard 1, mouse 2, otherwise 0), else
\* the first boot-subclass candidate, else the first candidate; the result is
\* a member of the list.
C30_SelectsPreferredCandidate ==
    call.op = "_select_best_interface_for_type" =>
        /\ ret.v = call.interfaces[PreferredPosition(call.interfaces, call.device_type)]
        /\ \E k \in 1..Len(call.interfaces) : ret.v = call.interfaces[k]

\* a non-boot candidate, a boot mouse and a boot keyboard, asked for the
\* keyboard: the third is selected
C30_Witness ==
    /\ call.op = "_select_best_interface_for_type"
    /\ call.device_type = "keyboard"
    /\ Len(call.interfaces) = 3
    /\ call.interfaces[1].interface_subclass = 0
    /\ call.interfaces[2].interface_subclass = 1
    /\ call.interfaces[2].interface_protocol = 2
    /\ call.interfaces[3].interface_subclass = 1
    /\ call.interfaces[3].interface_protocol = 1
    /\ ret.v = call.interfaces[3]

\* the HID interfaces of d that have an IN endpoint and pass the filter
SurvivingInterfaces(d) ==
    collect_hid_interfaces(d, Device[d].cfg, 0, <<>>, device_filters).hid

ClassificationsOf(hid) == {classify_hid_device(hid[k]) : k \in 1..Len(hid)}

\* the interfaces of hid of classification t, in discovery order
CandidatesOf(hid, t) == SelectSeq(hid, LAMBDA i : classify_hid_device(i) = t)

CompositeRecordIsSound(record) ==
    /\ Cardinality(ClassificationsOf(SurvivingInterfaces(record.device))) >= 2
    /\ Len(record.types) = Len(record.interfaces_by_type)
    /\ \A k \in 1..Len(record.types) :
          /\ record.types[k] = record.interfaces_by_type[k].type
          /\ \A j \in 1..Len(record.types) : j # k => record.types[j] # record.types[k]
          /\ record.interfaces_by_type[k].interfaces =
                CandidatesOf(SurvivingInterfaces(record.device), record.types[k])
    /\ {record.types[k] : k \in 1..Len(record.types)}
          = ClassificationsOf(SurvivingInterfaces(record.device))

\* C31: in every reachable state (under filters that have not changed) each
\* composite-map record belongs to a device whose surviving HID interfaces
\* span at least two classifications, its types list is the key list of its
\* interfaces_by_type, and each classification maps to all candidate
\* interfaces of the device of that classification, not only the selected
\* one; a cached device of a single classification has no record.
C31_CompositeRecordsAreSound ==
    /\ \A key \in DOMAIN device_cache.composite_devices :
          /\ CompositeRecordIsSound(device_cache.composite_devices[key])
          /\ key = StoreDeviceId(device_cache.composite_devices[key].device)
    /\ \A d \in CachedDevices :
          Cardinality(ClassificationsOf(SurvivingInterfaces(d))) = 1
             => StoreDeviceId(d) \notin DOMAIN device_cache.composite_devices

\* the record of the device with two keyboard interfaces and a mouse
\* interface lists both keyboard interfaces
C31_Witness ==
    /\ bus = <<"kbd", "trio">>
    /\ scan.scanned
    /\ outcome = "return"
    /\ StoreDeviceId("trio") \in DOMAIN device_cache.composite_devices
    /\ device_cache.composite_devices[StoreDeviceId("trio")].types = <<"keyboard", "mouse">>
    /\ Len(device_cache.composite_devices[StoreDeviceId("trio")].interfaces_by_type[1].interfaces) = 2
    /\ StoreDeviceId("kbd") \notin DOMAIN device_cache.composite_devices

\* a string and a filter entry that are equal when case is ignored
SameIgnoringCase(a, b) == Lower(a) = Lower(b)

\* the manufacturer string the filter is asked about: the device's, or
\* 'Unknown' for a device that has none
ManufacturerOf(d) ==
    IF Device[d].manufacturer.tag = "str" THEN Device[d].manufacturer.val
    ELSE S_Unknown

NamedIn(slot, name) == \E e \in slot.set : SameIgnoringCase(e, name)

\* d fails the active filter
FailsFilter(d) ==
    \/ device_filters.allowed_vids.set # {}
         /\ Device[d].idVendor \notin device_filters.allowed_vids.set
    \/ Device[d].idVendor \in device_filters.blocked_vids.set
    \/ device_filters.allowed_manufacturers.set # {}
         /\ ~NamedIn(device_filters.allowed_manufacturers, ManufacturerOf(d))
    \/ NamedIn(device_filters.blocked_manufacturers, ManufacturerOf(d))

\* C32: an interface is dropped before classification iff it fails the active
\* filter (vendor id outside a non-empty allow-list or in the block-list,
\* manufacturer, compared without regard to case, outside a non-empty
\* allow-list or in the block-list; a block-list entry wins): after a completed
\* scan a device on the bus has no cache entry exactly if it fails the filter.
C32_DroppedIffFailsFilter ==
    (scan.scanned /\ outcome = "return")
    => \A k \in 1..Len(bus) : ~IsCached(bus[k]) <=> FailsFilter(bus[k])

\* the cache is Fresh: last_scan is set and within the timeout
Fresh == CacheIsFresh(device_cache, cache_timeout, now)

\* C33: a refresh that is cut short by an exception escaping the scan never
\* leaves a Fresh cache, whose cleared or partially filled buckets later
\* non-forced queries would return as current: after a call whose scan ended
\* in an exception the cache is not Fresh.
C33_CutShortRefreshLeavesNoFreshCache ==
    [][(scan'.scanned /\ outcome' \notin {"return", "hang"}) => ~Fresh']_vars

\* the entries of the three buckets
BucketEntries ==
    UNION {{device_cache[b][k] : k \in 1..Len(device_cache[b])} :
              b \in {"keyboards", "mice", "gamepads"}}

\* bit 7 of an endpoint address
HasBit7(address) == (address \div 128) % 2 = 1

Occurrences(s, x) == Cardinality({k \in 1..Len(s) : s[k] = x})

\* how many entries of bucket b come from the device d
EntriesFrom(b, d) ==
    Cardinality({k \in 1..Len(device_cache[b]) : device_cache[b][k].device = d})

\* C35: every entry stored in the keyboards / mice / gamepads bucket is an
\* interface that _classify_hid_device classifies as keyboard / mouse /
\* gamepad respectively, and a single device contributes at most one entry to
\* each bucket per refresh (a bucket has no more entries from a device than
\* the scan met devices of that kind).
C35_BucketMatchesClassification ==
    /\ \A device_type \in {"keyboard", "mouse", "gamepad"} :
          \A k \in 1..Len(device_cache[BucketOf(device_type)]) :
              classify_hid_device(device_cache[BucketOf(device_type)][k]) = device_type
    /\ scan.scanned =>
          \A b \in {"keyboards", "mice", "gamepads"} :
              \A d \in CompositePool : EntriesFrom(b, d) <= Occurrences(scan.analysed, d)

\* a device with two keyboard interfaces and a mouse interface has been
\* scanned and has one entry in the keyboards and one in the mice bucket
C35_Witness ==
    /\ scan.scanned
    /\ Occurrences(scan.analysed, "trio") = 1
    /\ EntriesFrom("keyboards", "trio") = 1
    /\ EntriesFrom("mice", "trio") = 1

\* the scan of the whole bus, started from cleared buckets
WholeScan == scan_devices(cleared_cache(device_cache), device_filters, bus, 1, <<>>, <<>>)

\* the buckets and the composite map are those of a scan of the whole bus
\* that ran to its end
HoldsWholeSnapshot(whole) ==
    /\ whole.status = "ok"
    /\ Contents(device_cache) = Contents(whole.cache)

C37_NegativeIndexTouchesNothing ==
    [][(call'.op \in InfoCalls \cup DeviceCalls /\ call'.index < 0)
       => /\ outcome' = "IndexError"
          /\ device_cache' = device_cache
          /\ ~scan'.scanned
          /\ scan'.notified = <<>>]_vars

\* a query with index -1 has raised on a Stale cache that still lists a
\* keyboard no longer on the bus, with a change callback registered
C37_Witness ==
    /\ call.op \in InfoCalls
    /\ call.index < 0
    /\ outcome = "IndexError"
    /\ device_cache.last_scan # NoScan
    /\ ~Fresh
    /\ Len(device_cache.keyboards) > 0
    /\ bus = <<>>
    /\ Len(device_change_callbacks) > 0

ConfigurationCalls ==
    {"set_device_filter", "set_cache_timeout", "register_device_change_callback"}

\* the callbacks a refresh invoked for bucket b, in order
InvokedFor(log, b) ==
    SelectSeq([k \in 1..Len(log) |-> [callback |-> log[k].callback, bucket |-> log[k].bucket]],
              LAMBDA c : c.bucket = b)

\* no element of the sequence s occurs twice
NoRepeats(s) == \A j, k \in 1..Len(s) : s[j] = s[k] => j = k

\* C38: set_device_filter, set_cache_timeout and
\* register_device_change_callback change only their own configuration: they
\* leave the buckets, the composite map and last_scan unchanged and trigger
\* no scan, so a filter change shows in query results only after the next
\* refresh; a callback registered twice is registered once and is invoked
\* once per notification.
C38_ConfigurationCallsChangeOnlyTheirSetting ==
    [][/\ call'.op \in ConfigurationCalls
          => /\ device_cache' = device_cache
             /\ ~scan'.scanned
             /\ scan'.notified = <<>>
             /\ outcome' = "return"
             /\ call'.op # "set_device_filter" => device_filters' = device_filters
             /\ call'.op # "set_cache_timeout" => cache_timeout' = cache_timeout
             /\ call'.op # "register_device_change_callback"
                   => device_change_callbacks' = device_change_callbacks
       /\ NoRepeats(device_change_callbacks')
       /\ \A b \in {"keyboards", "mice", "gamepads"} :
              NoRepeats(InvokedFor(scan'.notified, b))]_vars

\* set_device_filter has set a filter that a cached device fails, and the
\* cache is Fresh and still holds the device
C38_Witness ==
    /\ call.op = "set_device_filter"
    /\ Fresh
    /\ \E e \in BucketEntries : FailsFilter(e.device)
    /\ Len(device_change_callbacks) > 0

\* C39: change detection compares bucket sizes only: a refresh that leaves a
\* bucket as long as it found it, whatever devices went and came, invokes no
\* change callback for that classification.
C39_SameSizeMeansNoCallback ==
    [][scan'.scanned
       => \A b \in {"keyboards", "mice", "gamepads"} :
              Len(device_cache'[b]) = Len(device_cache[b])
              => \A k \in 1..Len(scan'.notified) : scan'.notified[k].bucket # b]_vars

\* a forced refresh with a callback registered found one keyboard cached and
\* left a different keyboard in its place, and invoked no callback
C39_Witness ==
    /\ call.op = "force_refresh"
    /\ outcome = "return"
    /\ Len(device_change_callbacks) > 0
    /\ Len(call.old_cache.keyboards) = 1
    /\ Len(device_cache.keyboards) = 1
    /\ call.old_cache.keyboards[1].device = "kbd"
    /\ device_cache.keyboards[1].device = "stub"
    /\ scan.notified = <<>>

====
